---- MODULE Spec2Model ----
(***************************************************************************)
(* Lease lifecycle and payment orchestration: the lease / payment / ledger *)
(* / idempotency tables, the service handlers that write them and the      *)
(* event bus they publish on.  Money is counted in cents, time in days.    *)
(***************************************************************************)
EXTENDS Integers, Sequences, FiniteSets, TLC

(* ---------------------------- bounds ---------------------------------- *)
MaxLeases   == 2    \* lease rows ever created (Spec)
MaxLedger   == 4    \* ledger rows ever appended (Spec)
DeepLeases  == 1    \* lease rows of the single-lease specifications
ExhaustLedger == 11 \* ledger rows of a lease whose three payments fail
RouteLedger == 5    \* ledger rows of a lease one payment of which is paid twice
DeepLedger  == 7    \* ledger rows of the single-lease specifications
FaultLedger == 4    \* ledger rows of the specification with failures
MaxFaults   == 1    \* environment failures (database, bus, gateway) injected
NumKeys     == 1    \* distinct idempotency keys clients send
MaxTicks    == 1    \* clock ticks of one installment period
MaxDays     == 2    \* days that pass while idempotency keys age
MaxCents    == 120  \* principals of 0.01 .. 1.20, in cents
MaxHistory  == 4    \* events of a history handed to the reconstructor
MaxBackoff  == 6    \* highest attempt number a delay is calculated for
MaxHandlers == 3    \* handler registrations of one consumer
MaxMessages == 2    \* messages one consumer receives
MaxTimed    == 3    \* longest history folded up to a point in time
MaxTime     == 3    \* latest created_at of a row of such a history
MaxRetries  == 3    \* highest max_retries of a retry scheduler

(* ------------------------ program constants --------------------------- *)
TtlDays        == 1    \* ttl_seconds = 86400
PeriodDays     == 30   \* timedelta(days=30)
MinTerm        == 1
MaxTerm        == 60
DefaultAfter   == 3    \* failed payments that default a lease
MaxAttempts    == 3    \* retry_scheduled = attempt_number < 3
DiscountPct    == 2    \* Decimal("0.02")

(* ------------------------- input domains ------------------------------ *)
Customers      == {"CUST-A"}
Principals     == {0, 1000}
Terms          == {0, 1, 3, MaxTerm + 1}
Keys           == 1..NumKeys
NoTime         == -1            \* None for a nullable timestamp
NoAmount       == -1            \* None for a nullable amount
PayoffId       == <<0, 0>>      \* UUID(int=0)
DefaultLimit   == 100           \* get_lease_history(..., limit=100)
Writers        == {"w1", "w2"}  \* two requests, each with its own session
Sessions       == {"s1", "s2"}  \* two check_and_store callers
SchedulePrincipals == (1..MaxCents) \cup {100000, 360000}   \* cents
ScheduleTerms      == MinTerm..MaxTerm
PayoffPrincipals   == (1..MaxCents) \cup {70000}                \* cents
PayoffTerms        == {1, 2, 3}

LeaseStatus   == {"PENDING", "ACTIVE", "COMPLETED", "DEFAULTED"}
PaymentStatus == {"PENDING", "PAID", "FAILED", "CANCELLED"}
PaymentResult == {"SUCCESS", "FAILURE"}

VARIABLES
    leases,            \* table leases: id -> row
    payments,          \* table payment_schedule: id -> row
    ledger,            \* table ledger, in commit order
    ledgerSeq,         \* next value of the ledger id sequence
    idempotency_keys,  \* table idempotency_keys: key -> row
    published,         \* events handed to the bus
    retry_queue,       \* retry_failed_payment tasks waiting in the broker
    now,               \* wall clock, in days
    faults,            \* environment failures so far
    writers,           \* concurrent update_lease_status calls in progress
    callers,           \* check_and_store calls: position, locals, result
    computed,          \* a function call: its name, arguments and result
    consumer,          \* an EventConsumer: handlers, calls made, DLQ, running
    last               \* the last call: operation, target, outcome

vars == <<leases, payments, ledger, ledgerSeq, idempotency_keys, published,
          retry_queue, now, faults, writers, callers, computed, consumer,
          last>>

\* The state of the components the lease and payment handlers do not touch.
aside == <<callers, computed, consumer>>

(* ------------------------- helper operators --------------------------- *)
Range(s) == {s[i] : i \in DOMAIN s}

RECURSIVE SelectSeqBy(_, _)
SelectSeqBy(s, lease_id) ==
    IF s = << >> THEN << >>
    ELSE IF Head(s).lease_id = lease_id
         THEN <<Head(s)>> \o SelectSeqBy(Tail(s), lease_id)
         ELSE SelectSeqBy(Tail(s), lease_id)

\* A rounding that takes ties upwards.
RoundHalfUp(num, den) ==
    LET q == num \div den
        r == num % den
    IN  IF 2 * r < den THEN q ELSE q + 1

\* Decimal.quantize(Decimal("0.01")) of num/den cents: ROUND_HALF_EVEN
RoundHalfEven(num, den) ==
    LET q == num \div den
        r == num % den
    IN  IF 2 * r < den THEN q
        ELSE IF 2 * r > den THEN q + 1
        ELSE IF q % 2 = 0 THEN q ELSE q + 1

NoneResponse ==
    [lease_id |-> 0, customer_id |-> "", principal_amount |-> 0,
     term_months |-> 0, status |-> ""]

\* The session's view of the database together with the bus and the broker.
World ==
    [leases |-> leases, payments |-> payments, ledger |-> ledger,
     seq |-> ledgerSeq, keys |-> idempotency_keys, published |-> published,
     queue |-> retry_queue]

\* An event of shared/events/schemas.py; a field the event's class does not
\* have holds NoAmount / PayoffId / 0.
Event(type, lease_id, payment_id, attempt, amount, principal, retry) ==
    [event_type |-> type, lease_id |-> lease_id, payment_id |-> payment_id,
     attempt_number |-> attempt, amount |-> amount,
     principal_amount |-> principal, total_paid |-> NoAmount,
     retry_scheduled |-> retry]

LeaseCreatedEvent(lease_id, principal_amount) ==
    Event("LEASE_CREATED", lease_id, PayoffId, 0, NoAmount, principal_amount, FALSE)

LeaseCompletedEvent(lease_id) ==
    Event("LEASE_COMPLETED", lease_id, PayoffId, 0, NoAmount, NoAmount, FALSE)

PaymentAttemptedEvent(payment_id, lease_id, attempt_number) ==
    Event("PAYMENT_ATTEMPTED", lease_id, payment_id, attempt_number,
          NoAmount, NoAmount, FALSE)

PaymentSucceededEvent(payment_id, lease_id, amount) ==
    Event("PAYMENT_SUCCEEDED", lease_id, payment_id, 0, amount, NoAmount, FALSE)

PaymentFailedEvent(payment_id, lease_id, retry_scheduled, attempt_number) ==
    Event("PAYMENT_FAILED", lease_id, payment_id, attempt_number,
          NoAmount, NoAmount, retry_scheduled)

Result(w, raised, ret) == [w |-> w, raised |-> raised, ret |-> ret]

(* ------------------------- lease state machine ------------------------ *)
\* A table that lets a completed lease default afterwards.
VALID_TRANSITIONS_Reopened ==
    [s \in LeaseStatus |->
        CASE s = "PENDING"   -> {"ACTIVE"}
          [] s = "ACTIVE"    -> {"COMPLETED", "DEFAULTED"}
          [] s = "COMPLETED" -> {"DEFAULTED"}
          [] s = "DEFAULTED" -> {}]

VALID_TRANSITIONS ==
    [s \in LeaseStatus |->
        CASE s = "PENDING"   -> {"ACTIVE"}
          [] s = "ACTIVE"    -> {"COMPLETED", "DEFAULTED"}
          [] s = "COMPLETED" -> {}
          [] s = "DEFAULTED" -> {}]

\* A check that also lets a lease stay in the status it has.
can_transition_or_same(from_status, to_status) ==
    \/ from_status = to_status
    \/ to_status \in VALID_TRANSITIONS[from_status]

can_transition(from_status, to_status) ==
    /\ from_status \in DOMAIN VALID_TRANSITIONS
    /\ to_status \in VALID_TRANSITIONS[from_status]

(* ------------------------------ ledger -------------------------------- *)
\* A sequence that hands out the same number again.
ledger_id_repeated(seq) == seq

\* The autoincrement primary key of the ledger table: the value after seq
ledger_id_nextval(seq) == seq + 1

\* A persister that reports success without writing the row.
persist_event_unrecorded(w, event, lease_id, fail) == Result(w, FALSE, 0)

\* LedgerRepository.append_event + commit, as EventPersister.persist_event
\* runs them; a failed commit has consumed the id the insert allocated.
persist_event(w, event, lease_id, fail) ==
    IF fail = "persist_append" THEN Result(w, TRUE, 0)
    ELSE IF fail = "persist_commit"
    THEN Result([w EXCEPT !.seq = ledger_id_nextval(@)], TRUE, 0)
    ELSE LET amount == IF event.amount # NoAmount THEN event.amount
                       ELSE IF event.principal_amount # NoAmount
                       THEN event.principal_amount
                       ELSE event.total_paid
             entry  == [id |-> w.seq, lease_id |-> lease_id,
                        event_type |-> event.event_type,
                        event_payload |-> event,
                        amount |-> amount, created_at |-> now]
         IN  Result([w EXCEPT !.ledger = Append(@, entry),
                              !.seq = ledger_id_nextval(@)],
                    FALSE, w.seq)

\* ORDER BY ledger.id of a set of rows
RECURSIVE order_by_id(_)
order_by_id(S) ==
    IF S = {} THEN << >>
    ELSE LET first == CHOOSE x \in S : \A y \in S : x.id <= y.id
         IN  <<first>> \o order_by_id(S \ {first})

\* LedgerRepository.get_lease_history: WHERE lease_id ORDER BY id OFFSET LIMIT
get_lease_history(led, lease_id, skip, limit) ==
    LET rows == order_by_id({e \in Range(led) : e.lease_id = lease_id})
        upto == IF skip + limit < Len(rows) THEN skip + limit ELSE Len(rows)
    IN  SubSeq(rows, skip + 1, upto)

\* A fold that adds every succeeded amount to total_paid.
RECURSIVE reconstruct_from_summing(_, _, _)
reconstruct_from_summing(state, events, point_in_time) ==
    IF events = << >> THEN state
    ELSE LET event   == Head(events)
             counted == [state EXCEPT !.event_count = @ + 1]
             next ==
               CASE event.event_type = "LEASE_CREATED" ->
                      [counted EXCEPT !.lease_id = event.event_payload.lease_id,
                                      !.principal_amount =
                                          event.event_payload.principal_amount,
                                      !.status = "ACTIVE"]
                 [] event.event_type = "PAYMENT_SUCCEEDED" ->
                      [counted EXCEPT !.total_paid = @ + event.event_payload.amount,
                                      !.paid_installments = @ + 1]
                 [] event.event_type = "PAYMENT_FAILED" ->
                      [counted EXCEPT !.failed_attempts = @ + 1]
                 [] event.event_type = "LEASE_COMPLETED" ->
                      [counted EXCEPT !.status = "COMPLETED"]
                 [] event.event_type = "LEASE_DEFAULTED" ->
                      [counted EXCEPT !.status = "DEFAULTED"]
                 [] OTHER -> counted
         IN  reconstruct_from_summing(next, Tail(events), point_in_time)

\* HistoricalStateReconstructor.reconstruct_lease_state: the fold of a
\* history; point_in_time = NoTime is None.
RECURSIVE reconstruct_from(_, _, _)
reconstruct_from(state, events, point_in_time) ==
    IF events = << >> THEN state
    ELSE IF point_in_time # NoTime /\ Head(events).created_at > point_in_time
    THEN state
    ELSE
    LET event   == Head(events)
        payload == event.event_payload
        counted == [state EXCEPT !.event_count = @ + 1]
        next ==
          CASE event.event_type = "LEASE_CREATED" ->
                 [counted EXCEPT !.lease_id = payload.lease_id,
                                 !.principal_amount = payload.principal_amount,
                                 !.status = "ACTIVE"]
            [] event.event_type = "PAYMENT_SUCCEEDED" ->
                 [counted EXCEPT !.total_paid = payload.amount,
                                 !.paid_installments = @ + 1]
            [] event.event_type = "PAYMENT_FAILED" ->
                 [counted EXCEPT !.failed_attempts = @ + 1]
            [] event.event_type = "LEASE_COMPLETED" ->
                 [counted EXCEPT !.status = "COMPLETED"]
            [] event.event_type = "LEASE_DEFAULTED" ->
                 [counted EXCEPT !.status = "DEFAULTED"]
            [] OTHER -> counted
    IN  reconstruct_from(next, Tail(events), point_in_time)

reconstruct_lease_state(events, point_in_time) ==
    reconstruct_from([lease_id |-> 0, status |-> "PENDING",
                      principal_amount |-> 0, total_paid |-> 0,
                      paid_installments |-> 0, failed_attempts |-> 0,
                      event_count |-> 0],
                     events, point_in_time)

(* ------------------------------ event bus ----------------------------- *)
publish_event(w, event) == [w EXCEPT !.published = @ \cup {event}]

\* The event types handlers are registered for, and the handlers.
HandledTypes == {"LEASE_CREATED", "PAYMENT_FAILED"}
Handlers     == {"h1", "h2"}

\* EventConsumer.__init__: no handlers; the calls made to handlers and the
\* DLQ list of Redis (newest first, as lpush leaves it) are kept with it,
\* and the number of dlq ids uuid4 has given out.
EventConsumer ==
    [handlers |-> [t \in HandledTypes |-> << >>], invoked |-> << >>,
     dlq |-> << >>, issued |-> 0, received |-> 0, running |-> TRUE]

\* EventConsumer.register_handler
register_handler(handlers, event_type, handler) ==
    [handlers EXCEPT ![event_type] = Append(@, handler)]

\* str(e) of the exception a handler raises
HandlerError(handler) == <<"failed", handler>>

\* EventConsumer._send_to_dlq: lpush of the enveloped event
_send_to_dlq(c, event_data, error) ==
    [c EXCEPT !.dlq = <<[original_event |-> event_data, error |-> error,
                         failed_at |-> now, dlq_id |-> c.issued + 1]>> \o @,
              !.issued = @ + 1]

\* A loop that gives up the message at the first handler that raises.
RECURSIVE run_handlers_stop_on_error(_, _, _, _)
run_handlers_stop_on_error(c, event_data, handlers, raises) ==
    IF handlers = << >> THEN c
    ELSE LET called == [c EXCEPT !.invoked =
                           Append(@, [event |-> event_data,
                                      handler |-> Head(handlers)])]
         IN  IF Head(raises)
             THEN _send_to_dlq(called, event_data, HandlerError(Head(handlers)))
             ELSE run_handlers_stop_on_error(called, event_data, Tail(handlers),
                                             Tail(raises))

\* _handle_message: for handler in handlers, with each handler's exception
\* caught and sent to the DLQ; raises[i] tells whether the i-th one raises
RECURSIVE run_handlers(_, _, _, _)
run_handlers(c, event_data, handlers, raises) ==
    IF handlers = << >> THEN c
    ELSE LET called == [c EXCEPT !.invoked =
                           Append(@, [event |-> event_data,
                                      handler |-> Head(handlers)])]
             after  == IF Head(raises)
                       THEN _send_to_dlq(called, event_data,
                                         HandlerError(Head(handlers)))
                       ELSE called
         IN  run_handlers(after, event_data, Tail(handlers), Tail(raises))

\* EventConsumer._handle_message on a message whose data is the JSON of an
\* event ("event"), is not JSON ("invalid": logged), or is JSON but not an
\* object ("array": event_data.get raises AttributeError, which only
\* JSONDecodeError is caught for, so it leaves _handle_message and start()).
_handle_message(c, message, raises) ==
    IF message.kind = "invalid" THEN [c |-> c, raised |-> FALSE]
    ELSE IF message.kind = "array" THEN [c |-> c, raised |-> TRUE]
    ELSE LET handlers == IF message.event.event_type \in DOMAIN c.handlers
                         THEN c.handlers[message.event.event_type]
                         ELSE << >>
         IN  [c |-> run_handlers(c, message.event, handlers, raises),
              raised |-> FALSE]

(* --------------------------- idempotency ------------------------------ *)
\* A store that takes every existing row for live, expired or not.
check_and_store_ignoring_expiry(keys, key, operation, response_payload, ttl) ==
    IF key \in DOMAIN keys
    THEN [dup |-> TRUE, cached |-> keys[key].response_payload, keys |-> keys]
    ELSE LET entry == [operation |-> operation,
                       response_payload |-> response_payload,
                       expires_at |-> now + ttl]
         IN  [dup |-> FALSE, cached |-> NoneResponse,
              keys |-> [k \in DOMAIN keys \cup {key} |->
                          IF k = key THEN entry ELSE keys[k]]]

\* IdempotencyRepository.check_and_store: [dup, cached, keys]
check_and_store(keys, key, operation, response_payload, ttl) ==
    IF key \in DOMAIN keys /\ keys[key].expires_at > now
    THEN [dup |-> TRUE, cached |-> keys[key].response_payload, keys |-> keys]
    ELSE LET entry == [operation |-> operation,
                       response_payload |-> response_payload,
                       expires_at |-> now + ttl]
         IN  [dup |-> FALSE, cached |-> NoneResponse,
              keys |-> [k \in DOMAIN keys \cup {key} |->
                          IF k = key THEN entry ELSE keys[k]]]

\* IdempotencyRepository.store_response: UPDATE ... WHERE key = :key
store_response(keys, key, response_payload) ==
    [k \in DOMAIN keys |->
        IF k = key THEN [keys[k] EXCEPT !.response_payload = response_payload]
        ELSE keys[k]]

\* No row: what get_by_id returns for a key the table does not hold.
NoRow == [operation |-> "", response_payload |-> NoneResponse, expires_at |-> NoTime]

\* IdempotencyRepository.get_by_id: SELECT ... WHERE key = :key
get_by_key(keys, key) == IF key \in DOMAIN keys THEN keys[key] ELSE NoRow

\* The rest of check_and_store once `existing` was read: the expiry test,
\* the delete of an expired row and the insert.  key is the primary key of
\* the table, so an insert of a key the table holds raises IntegrityError
\* and the session's changes are rolled back.
store_after_read(keys, key, existing, operation, response_payload, ttl) ==
    IF existing # NoRow /\ existing.expires_at > now
    THEN [raised |-> FALSE, dup |-> TRUE, cached |-> existing.response_payload,
          keys |-> keys]
    ELSE LET kept  == IF existing # NoRow THEN DOMAIN keys \ {key} ELSE DOMAIN keys
             entry == [operation |-> operation,
                       response_payload |-> response_payload,
                       expires_at |-> now + ttl]
         IN  IF key \in kept
             THEN [raised |-> TRUE, dup |-> FALSE, cached |-> NoneResponse,
                   keys |-> keys]
             ELSE [raised |-> FALSE, dup |-> FALSE, cached |-> NoneResponse,
                   keys |-> [k \in kept \cup {key} |->
                               IF k = key THEN entry ELSE keys[k]]]

(* ------------------------- payment schedule --------------------------- *)
\* A generator whose last installment is the rounded share like the others.
generate_equal_installments_no_residual(lease_id, principal_amount, term_months) ==
    LET start_date      == now + PeriodDays
        monthly_payment == RoundHalfEven(principal_amount, term_months)
    IN  [n \in 1..term_months |->
            [lease_id |-> lease_id, installment_number |-> n,
             due_date |-> start_date + PeriodDays * (n - 1),
             amount |-> monthly_payment]]

generate_equal_installments(lease_id, principal_amount, term_months) ==
    LET start_date      == now + PeriodDays
        monthly_payment == RoundHalfEven(principal_amount, term_months)
    IN  [n \in 1..term_months |->
            [lease_id |-> lease_id, installment_number |-> n,
             due_date |-> start_date + PeriodDays * (n - 1),
             amount |-> IF n = term_months
                        THEN principal_amount - monthly_payment * (term_months - 1)
                        ELSE monthly_payment]]

PaymentRow(d) ==
    [lease_id |-> d.lease_id, installment_number |-> d.installment_number,
     due_date |-> d.due_date, amount |-> d.amount, status |-> "PENDING",
     retry_count |-> 0, last_attempt_at |-> NoTime]

(* ---------------------------- lease service --------------------------- *)
\* A validation with no upper limit on the term.
_validate_lease_inputs_no_upper(principal_amount, term_months) ==
    /\ principal_amount > 0
    /\ MinTerm <= term_months

_validate_lease_inputs(principal_amount, term_months) ==
    /\ principal_amount > 0
    /\ MinTerm <= term_months /\ term_months <= MaxTerm

NewLeaseId(w) == Cardinality(DOMAIN w.leases) + 1    \* uuid4: a fresh id

CreateFailPoints ==
    {"none", "lease_insert", "payment_insert", "persist_append",
     "persist_commit", "publish", "store_response"}

\* LeaseService.create_lease; `fail` names the step the environment fails.
create_lease(w, customer_id, principal_amount, term_months, key, fail) ==
    IF ~_validate_lease_inputs(principal_amount, term_months)
    THEN Result(w, TRUE, 0)
    ELSE
    LET chk   == check_and_store(w.keys, key, "CREATE_LEASE", NoneResponse, TtlDays)
        id    == NewLeaseId(w)
        lease == [customer_id |-> customer_id, status |-> "PENDING",
                  principal_amount |-> principal_amount,
                  term_months |-> term_months]
        \* lease_repo.create + commit: the key row commits with the lease row
        w1    == [w EXCEPT !.keys = chk.keys,
                           !.leases = [l \in DOMAIN w.leases \cup {id} |->
                                         IF l = id THEN lease ELSE w.leases[l]]]
        sched == generate_equal_installments(id, principal_amount, term_months)
        newp  == {<<id, n>> : n \in DOMAIN sched}
        \* payment_repo.create for each installment, then one commit
        w2    == [w1 EXCEPT !.payments =
                     [p \in DOMAIN w1.payments \cup newp |->
                        IF p \in newp THEN PaymentRow(sched[p[2]])
                        ELSE w1.payments[p]]]
        event == LeaseCreatedEvent(id, principal_amount)
        pers  == persist_event(w2, event, id, fail)
        w4    == publish_event(pers.w, event)
        response == [lease_id |-> id, customer_id |-> customer_id,
                     principal_amount |-> principal_amount,
                     term_months |-> term_months, status |-> lease.status]
        w5    == [w4 EXCEPT !.keys = store_response(@, key, response)]
    IN  IF fail = "lease_insert" THEN Result(w, TRUE, 0)
        ELSE IF fail = "payment_insert" THEN Result(w1, TRUE, 0)
        ELSE IF pers.raised THEN Result(pers.w, TRUE, 0)
        ELSE IF fail = "publish" THEN Result(pers.w, TRUE, 0)
        ELSE IF fail = "store_response" THEN Result(w4, TRUE, 0)
        ELSE Result(w5, FALSE, id)

\* LeaseService.update_lease_status: ret is TRUE when the row was written
update_lease_status(w, lease_id, new_status) ==
    IF lease_id \notin DOMAIN w.leases THEN Result(w, TRUE, FALSE)
    ELSE IF ~can_transition(w.leases[lease_id].status, new_status)
    THEN Result(w, TRUE, FALSE)
    ELSE Result([w EXCEPT !.leases[lease_id].status = new_status], FALSE, TRUE)

count_by_lease_and_status(w, lease_id, status) ==
    Cardinality({p \in DOMAIN w.payments :
                    /\ w.payments[p].lease_id = lease_id
                    /\ w.payments[p].status = status})

count_failed_by_lease(w, lease_id) ==
    count_by_lease_and_status(w, lease_id, "FAILED")

\* PaymentRepository.get_next_payment(lease_id) is not None
has_next_payment(w, lease_id) ==
    count_by_lease_and_status(w, lease_id, "PENDING") > 0

\* A coordinator that requests the activation whatever the lease's status.
check_and_activate_unguarded(w, lease_id) ==
    IF lease_id \notin DOMAIN w.leases THEN Result(w, FALSE, FALSE)
    ELSE IF ~has_next_payment(w, lease_id) THEN Result(w, FALSE, FALSE)
    ELSE LET u == update_lease_status(w, lease_id, "ACTIVE")
         IN  Result(u.w, u.raised, ~u.raised)

check_and_activate(w, lease_id) ==
    IF lease_id \notin DOMAIN w.leases THEN Result(w, FALSE, FALSE)
    ELSE IF w.leases[lease_id].status # "PENDING" THEN Result(w, FALSE, FALSE)
    ELSE IF ~has_next_payment(w, lease_id) THEN Result(w, FALSE, FALSE)
    ELSE LET u == update_lease_status(w, lease_id, "ACTIVE")
         IN  Result(u.w, u.raised, ~u.raised)

\* LeaseCompletedEvent(lease_id=..., customer_id=...): total_paid is a
\* required field and is not passed, so the constructor raises.
LeaseCompletedEvent_raises == TRUE

check_and_complete(w, lease_id, fail) ==
    IF lease_id \notin DOMAIN w.leases THEN Result(w, FALSE, FALSE)
    ELSE IF w.leases[lease_id].status # "ACTIVE" THEN Result(w, FALSE, FALSE)
    ELSE IF \/ count_by_lease_and_status(w, lease_id, "PENDING") > 0
            \/ count_by_lease_and_status(w, lease_id, "FAILED") > 0
    THEN Result(w, FALSE, FALSE)
    ELSE LET u     == update_lease_status(w, lease_id, "COMPLETED")
             event == LeaseCompletedEvent(lease_id)
             pers  == persist_event(u.w, event, lease_id, fail)
         IN  IF u.raised THEN Result(u.w, TRUE, FALSE)
             ELSE IF LeaseCompletedEvent_raises THEN Result(u.w, TRUE, FALSE)
             ELSE IF pers.raised THEN Result(pers.w, TRUE, FALSE)
             ELSE IF fail = "publish" THEN Result(pers.w, TRUE, FALSE)
             ELSE Result(publish_event(pers.w, event), FALSE, TRUE)

\* A coordinator that defaults only above the threshold, not at it.
check_and_default_above_threshold(w, lease_id) ==
    IF lease_id \notin DOMAIN w.leases THEN Result(w, FALSE, FALSE)
    ELSE IF w.leases[lease_id].status \notin {"ACTIVE", "PENDING"}
    THEN Result(w, FALSE, FALSE)
    ELSE IF count_failed_by_lease(w, lease_id) <= DefaultAfter
    THEN Result(w, FALSE, FALSE)
    ELSE LET u == update_lease_status(w, lease_id, "DEFAULTED")
         IN  Result(u.w, u.raised, ~u.raised)

check_and_default(w, lease_id) ==
    IF lease_id \notin DOMAIN w.leases THEN Result(w, FALSE, FALSE)
    ELSE IF w.leases[lease_id].status \notin {"ACTIVE", "PENDING"}
    THEN Result(w, FALSE, FALSE)
    ELSE IF count_failed_by_lease(w, lease_id) < DefaultAfter
    THEN Result(w, FALSE, FALSE)
    ELSE LET u == update_lease_status(w, lease_id, "DEFAULTED")
         IN  Result(u.w, u.raised, ~u.raised)

(* --------------------------- payment service -------------------------- *)
AttemptFailPoints ==
    {"none", "persist_append", "persist_commit", "publish_attempted",
     "gateway", "outcome_append", "outcome_commit", "publish_outcome",
     "update_status"}

OutcomeFail(fail) ==
    IF fail = "outcome_append" THEN "persist_append"
    ELSE IF fail = "outcome_commit" THEN "persist_commit"
    ELSE "none"

\* An update that writes the status and the time but not the retry count.
update_status_keep_count(pays, payment_id, status, retry_count, last_attempt_at) ==
    [p \in DOMAIN pays |->
        IF p = payment_id
        THEN [pays[p] EXCEPT !.status = status,
                             !.last_attempt_at = last_attempt_at]
        ELSE pays[p]]

\* PaymentRepository.update_status: UPDATE ... WHERE id = :payment_id
update_status(pays, payment_id, status, retry_count, last_attempt_at) ==
    [p \in DOMAIN pays |->
        IF p = payment_id
        THEN [pays[p] EXCEPT !.status = status, !.retry_count = retry_count,
                             !.last_attempt_at = last_attempt_at]
        ELSE pays[p]]

\* PaymentService.attempt_payment; ret is the returned PaymentStatus
attempt_payment(w, payment_id, lease_id, amount, attempt_number, result, fail) ==
    LET attempted == PaymentAttemptedEvent(payment_id, lease_id, attempt_number)
        a    == persist_event(w, attempted, lease_id, fail)
        wA   == publish_event(a.w, attempted)
        paid == result = "SUCCESS"
        retry_scheduled == attempt_number < MaxAttempts
        outcome == IF paid
                   THEN PaymentSucceededEvent(payment_id, lease_id, amount)
                   ELSE PaymentFailedEvent(payment_id, lease_id, retry_scheduled,
                                           attempt_number)
        o    == persist_event(wA, outcome, lease_id, OutcomeFail(fail))
        wO   == publish_event(o.w, outcome)
        wU   == [wO EXCEPT !.payments =
                    IF paid
                    THEN update_status(@, payment_id, "PAID", attempt_number - 1, now)
                    ELSE update_status(@, payment_id, "FAILED", attempt_number, now)]
    IN  IF a.raised THEN Result(a.w, TRUE, "")
        ELSE IF fail = "publish_attempted" THEN Result(a.w, TRUE, "")
        ELSE IF fail = "gateway" THEN Result(wA, TRUE, "")
        ELSE IF o.raised THEN Result(o.w, TRUE, "")
        ELSE IF fail = "publish_outcome" THEN Result(o.w, TRUE, "")
        ELSE IF fail = "update_status" THEN Result(wO, TRUE, "")
        ELSE Result(wU, FALSE, IF paid THEN "PAID" ELSE "FAILED")

check_lease_for_default(w, lease_id) ==
    IF lease_id \notin DOMAIN w.leases THEN Result(w, FALSE, FALSE)
    ELSE IF w.leases[lease_id].status = "DEFAULTED" THEN Result(w, FALSE, FALSE)
    ELSE IF count_failed_by_lease(w, lease_id) >= DefaultAfter
    THEN check_and_default(w, lease_id)
    ELSE Result(w, FALSE, FALSE)

RECURSIVE SumAmounts(_, _)
SumAmounts(pays, S) ==
    IF S = {} THEN 0
    ELSE LET p == CHOOSE x \in S : TRUE
         IN  pays[p].amount + SumAmounts(pays, S \ {p})

\* PaymentService.calculate_early_payoff: <<remaining, payoff, discount>>
calculate_early_payoff(w, lease_id) ==
    LET all_payments    == {p \in DOMAIN w.payments :
                               w.payments[p].lease_id = lease_id}
        paid_payments   == {p \in all_payments : w.payments[p].status = "PAID"}
        total_scheduled == SumAmounts(w.payments, all_payments)
        total_paid      == SumAmounts(w.payments, paid_payments)
        remaining       == total_scheduled - total_paid
        discount        == RoundHalfEven(remaining * DiscountPct, 100)
    IN  <<remaining, remaining - discount, discount>>

PayoffFailPoints == AttemptFailPoints \cup {"cancel"}

\* PaymentService.process_early_payoff
process_early_payoff(w, lease_id, result, fail) ==
    IF lease_id \notin DOMAIN w.leases THEN Result(w, TRUE, FALSE)
    ELSE
    LET calc == calculate_early_payoff(w, lease_id)
        att  == attempt_payment(w, PayoffId, lease_id, calc[2], 1, result, fail)
        remaining_payments ==
                {p \in DOMAIN att.w.payments :
                    /\ att.w.payments[p].lease_id = lease_id
                    /\ att.w.payments[p].status = "PENDING"}
        wC   == [att.w EXCEPT !.payments =
                    [p \in DOMAIN @ |->
                        IF p \in remaining_payments
                        THEN [@[p] EXCEPT !.status = "CANCELLED"]
                        ELSE @[p]]]
        cc   == check_and_complete(wC, lease_id, "none")
    IN  IF att.raised THEN Result(att.w, TRUE, FALSE)
        ELSE IF att.ret # "PAID" THEN Result(att.w, TRUE, FALSE)
        ELSE IF fail = "cancel" THEN Result(att.w, TRUE, FALSE)
        ELSE IF cc.raised THEN Result(cc.w, TRUE, FALSE)
        ELSE Result(cc.w, FALSE, TRUE)

\* One PAYMENT_SCHEDULED event of schedule_payments_for_lease's loop
PaymentScheduledEvent(payment_id, lease_id, amount) ==
    Event("PAYMENT_SCHEDULED", lease_id, payment_id, 0, amount, NoAmount, FALSE)

\* The loop of schedule_payments_for_lease from installment n on; the
\* environment fails installment fail_at at step fail.
RECURSIVE schedule_from(_, _, _, _, _, _)
schedule_from(w, lease_id, n, term, fail_at, fail) ==
    IF n > term THEN Result(w, FALSE, TRUE)
    ELSE LET pid   == <<lease_id, n>>
             event == PaymentScheduledEvent(pid, lease_id, w.payments[pid].amount)
             pers  == persist_event(w, event, lease_id,
                                    IF n = fail_at THEN fail ELSE "none")
         IN  IF pers.raised THEN Result(pers.w, TRUE, FALSE)
             ELSE IF n = fail_at /\ fail = "publish" THEN Result(pers.w, TRUE, FALSE)
             ELSE schedule_from(publish_event(pers.w, event), lease_id, n + 1,
                                term, fail_at, fail)

ScheduleFailPoints == {"none", "persist_append", "persist_commit", "publish"}

\* PaymentService.schedule_payments_for_lease(lease_id, the lease's payments)
schedule_payments_for_lease(w, lease_id, fail_at, fail) ==
    schedule_from(w, lease_id, 1,
                  Cardinality({p \in DOMAIN w.payments :
                                  w.payments[p].lease_id = lease_id}),
                  fail_at, fail)

(* ------------------------------- tasks -------------------------------- *)
\* str(status) of the enum class PaymentStatus(str, enum.Enum)
str_PaymentStatus(status) ==
    CASE status = "PENDING"   -> "PaymentStatus.PENDING"
      [] status = "PAID"      -> "PaymentStatus.PAID"
      [] status = "FAILED"    -> "PaymentStatus.FAILED"
      [] status = "CANCELLED" -> "PaymentStatus.CANCELLED"
      [] OTHER                -> status

Task(payment_id, lease_id, amount, attempt_number) ==
    [payment_id |-> payment_id, lease_id |-> lease_id, amount |-> amount,
     attempt_number |-> attempt_number]

\* A task that reports exhaustion without evaluating default.
retry_failed_payment_no_default(w, task, result, fail) ==
    LET att == attempt_payment(w, task.payment_id, task.lease_id, task.amount,
                               task.attempt_number, result, fail)
        nxt == Task(task.payment_id, task.lease_id, task.amount,
                    task.attempt_number + 1)
    IN  IF att.raised THEN Result(att.w, FALSE, "error")
        ELSE IF str_PaymentStatus(att.ret) = "PaymentStatus.PAID"
        THEN Result(att.w, FALSE, "success")
        ELSE IF task.attempt_number < MaxAttempts
        THEN Result([att.w EXCEPT !.queue = @ \cup {nxt}], FALSE, "retry_scheduled")
        ELSE Result(att.w, FALSE, "failed")

\* retry_failed_payment: every exception is caught and reported as "error"
retry_failed_payment(w, task, result, fail) ==
    LET att == attempt_payment(w, task.payment_id, task.lease_id, task.amount,
                               task.attempt_number, result, fail)
        nxt == Task(task.payment_id, task.lease_id, task.amount,
                    task.attempt_number + 1)
        cd  == check_lease_for_default(att.w, task.lease_id)
    IN  IF att.raised THEN Result(att.w, FALSE, "error")
        ELSE IF str_PaymentStatus(att.ret) = "PaymentStatus.PAID"
        THEN Result(att.w, FALSE, "success")
        ELSE IF task.attempt_number < MaxAttempts
        THEN Result([att.w EXCEPT !.queue = @ \cup {nxt}], FALSE, "retry_scheduled")
        ELSE IF cd.raised THEN Result(cd.w, FALSE, "error")
        ELSE Result(cd.w, FALSE, "failed")

\* PaymentRepository.get_due_payments(date.today()): PENDING and due
get_due_payments(w) ==
    {p \in DOMAIN w.payments :
        /\ w.payments[p].due_date <= now
        /\ w.payments[p].status = "PENDING"}

\* The loop of process_due_payments over the payments in S, in due order;
\* ret counts the payments processed.
RECURSIVE process_each(_, _, _, _)
process_each(w, S, results, processed) ==
    IF S = {} THEN Result(w, FALSE, processed)
    ELSE
    LET p   == CHOOSE x \in S : \A y \in S :
                   \/ w.payments[x].due_date < w.payments[y].due_date
                   \/ /\ w.payments[x].due_date = w.payments[y].due_date
                      /\ x[1] <= y[1]
        row == w.payments[p]
        att == attempt_payment(w, p, row.lease_id, row.amount, 1, results[p], "none")
        w1  == IF str_PaymentStatus(att.ret) = "PaymentStatus.PAID" THEN att.w
               ELSE [att.w EXCEPT !.queue =
                        @ \cup {Task(p, row.lease_id, row.amount, 1)}]
    IN  IF row.status # "PaymentStatus.PENDING"
        THEN process_each(w, S \ {p}, results, processed)
        ELSE process_each(w1, S \ {p}, results, processed + 1)

process_due_payments(w, results) ==
    process_each(w, get_due_payments(w), results, 0)

(* ------------------------ ledger repository --------------------------- *)
\* LedgerRepository.update / LedgerRepository.delete: both only raise
LedgerRepository_update(w, id, event_type) == Result(w, TRUE, FALSE)

\* BaseRepository.delete, which LedgerRepository overrides: removes the row.
BaseRepository_delete(w, id) ==
    Result([w EXCEPT !.ledger = SelectSeq(@, LAMBDA e : e.id # id)],
           FALSE, \E i \in DOMAIN w.ledger : w.ledger[i].id = id)

LedgerRepository_delete(w, id) == Result(w, TRUE, FALSE)

(* ------------------------------ actions ------------------------------- *)
LeaseIds == 1..MaxLeases

\* id is the lease (or, for the ledger repository, the row) of the call
Call(op, id, raised, ret) ==
    [op |-> op, id |-> id, raised |-> raised, ret |-> ret]

\* A session that is not inside check_and_store; result is what its last
\* call returned.
NoCall ==
    [pc |-> "idle", key |-> 0, existing |-> NoRow,
     result |-> [raised |-> FALSE, dup |-> FALSE, cached |-> NoneResponse]]

Idle == [pc |-> "idle", lease_id |-> 0, new_status |-> ""]

BoolStr(b) == IF b THEN "True" ELSE "False"

Cost(fail) == IF fail = "none" THEN 0 ELSE 1

\* The handler's result becomes the next state, within the bounds.
Apply(r, fail, maxLedger, maxLeases) ==
    /\ Len(r.w.ledger) <= maxLedger
    /\ Cardinality(DOMAIN r.w.leases) <= maxLeases
    /\ faults + Cost(fail) <= MaxFaults
    /\ leases' = r.w.leases
    /\ payments' = r.w.payments
    /\ ledger' = r.w.ledger
    /\ ledgerSeq' = r.w.seq
    /\ idempotency_keys' = r.w.keys
    /\ published' = r.w.published
    /\ retry_queue' = r.w.queue
    /\ faults' = faults + Cost(fail)
    /\ now' = now
    /\ writers' = writers
    /\ UNCHANGED aside

InitDb ==
    /\ leases = << >>
    /\ payments = << >>
    /\ ledger = << >>
    /\ ledgerSeq = 1
    /\ idempotency_keys = << >>
    /\ published = {}
    /\ retry_queue = {}
    /\ now = 0
    /\ faults = 0
    /\ writers = [wr \in Writers |-> Idle]
    /\ callers = [c \in Sessions |-> NoCall]
    /\ consumer = EventConsumer
    /\ last = Call("init", 0, FALSE, "")

\* No function call is being looked at.
NoComputation == [fn |-> "", args |-> << >>, done |-> FALSE, out |-> << >>]

Init ==
    /\ InitDb
    /\ computed = NoComputation

\* Each action is a handler called with inputs its callers can pass; F is
\* the set of steps the environment may fail, mL and mN the bounds.
CreateLeaseCall(c, pa, t, k, f, mL, mN) ==
    LET r == create_lease(World, c, pa, t, k, f)
    IN  /\ f # "none" => _validate_lease_inputs(pa, t)
        /\ Apply(r, f, mL, mN)
        /\ last' = Call("create_lease", r.ret, r.raised, "")

CreateLease(F, mL, mN) ==
    \E c \in Customers, pa \in Principals, t \in Terms, k \in Keys, f \in F :
        CreateLeaseCall(c, pa, t, k, f, mL, mN)

UpdateLeaseStatus(mL, mN) ==
    \E l \in LeaseIds, s \in LeaseStatus :
        LET r == update_lease_status(World, l, s)
        IN  /\ Apply(r, "none", mL, mN)
            /\ last' = Call("update_lease_status", l, r.raised, s)

CheckAndActivate(mL, mN) ==
    \E l \in DOMAIN leases :
        LET r == check_and_activate(World, l)
        IN  /\ Apply(r, "none", mL, mN)
            /\ last' = Call("check_and_activate", l, r.raised, BoolStr(r.ret))

CheckAndComplete(mL, mN) ==
    \E l \in DOMAIN leases :
        LET r == check_and_complete(World, l, "none")
        IN  /\ Apply(r, "none", mL, mN)
            /\ last' = Call("check_and_complete", l, r.raised, BoolStr(r.ret))

CheckAndDefault(mL, mN) ==
    \E l \in DOMAIN leases :
        LET r == check_and_default(World, l)
        IN  /\ Apply(r, "none", mL, mN)
            /\ last' = Call("check_and_default", l, r.raised, BoolStr(r.ret))

CheckLeaseForDefault(mL, mN) ==
    \E l \in DOMAIN leases :
        LET r == check_lease_for_default(World, l)
        IN  /\ Apply(r, "none", mL, mN)
            /\ last' = Call("check_lease_for_default", l, r.raised,
                            BoolStr(r.ret))

\* attempt_payment with attempt_number = payment.retry_count + 1, as the
\* attempt route passes it
AttemptPaymentCall(p, res, f, mL, mN) ==
    LET r == attempt_payment(World, p, payments[p].lease_id,
                             payments[p].amount,
                             payments[p].retry_count + 1, res, f)
    IN  /\ Apply(r, f, mL, mN)
        /\ last' = Call("attempt_payment", payments[p].lease_id,
                        r.raised, r.ret)

AttemptPayment(F, mL, mN) ==
    \E p \in DOMAIN payments, res \in PaymentResult, f \in F :
        AttemptPaymentCall(p, res, f, mL, mN)

ProcessEarlyPayoff(F, mL, mN) ==
    \E l \in DOMAIN leases, res \in PaymentResult, f \in F :
        LET r == process_early_payoff(World, l, res, f)
        IN  /\ Apply(r, f, mL, mN)
            /\ last' = Call("process_early_payoff", l, r.raised, BoolStr(r.ret))

SchedulePaymentsForLease(F, mL, mN) ==
    \E l \in DOMAIN leases, f \in F :
      \E k \in IF f = "none" THEN {0}
               ELSE {p[2] : p \in {q \in DOMAIN payments : q[1] = l}} :
        LET r == schedule_payments_for_lease(World, l, k, f)
        IN  /\ Apply(r, f, mL, mN)
            /\ last' = Call("schedule_payments_for_lease", l, r.raised, "")

\* A retry_failed_payment task: one waiting in the broker, or the first one
\* of a payment (attempt_number 1, as process_due_payments would send it)
RetryFailedPaymentCall(t, res, f, mL, mN) ==
    LET r == retry_failed_payment([World EXCEPT !.queue = @ \ {t}], t, res, f)
    IN  /\ Apply(r, f, mL, mN)
        /\ last' = Call("retry_failed_payment", t.lease_id, r.raised, r.ret)

RetryFailedPayment(F, mL, mN) ==
    \E t \in retry_queue \cup
             {Task(p, payments[p].lease_id, payments[p].amount, 1) :
                 p \in DOMAIN payments},
       res \in PaymentResult, f \in F :
        RetryFailedPaymentCall(t, res, f, mL, mN)

ProcessDuePayments(mL, mN) ==
    \E results \in [get_due_payments(World) -> PaymentResult] :
        LET r == process_due_payments(World, results)
        IN  /\ Apply(r, "none", mL, mN)
            /\ last' = Call("process_due_payments", r.ret, r.raised, "")

\* id 1 is the first ledger row, ledgerSeq an id no row has
LedgerUpdate(mL, mN) ==
    \E id \in {1, ledgerSeq}, t \in {"LEASE_DEFAULTED"} :
        LET r == LedgerRepository_update(World, id, t)
        IN  /\ Apply(r, "none", mL, mN)
            /\ last' = Call("ledger_update", id, r.raised, "")

LedgerDelete(mL, mN) ==
    \E id \in {1, ledgerSeq} :
        LET r == LedgerRepository_delete(World, id)
        IN  /\ Apply(r, "none", mL, mN)
            /\ last' = Call("ledger_delete", id, r.raised, "")

NoFail == {"none"}

\* The system with a reliable environment: no database, bus or gateway call
\* fails.
Next ==
    \/ CreateLease(NoFail, MaxLedger, MaxLeases)
    \/ UpdateLeaseStatus(MaxLedger, MaxLeases)
    \/ CheckAndActivate(MaxLedger, MaxLeases)
    \/ CheckAndComplete(MaxLedger, MaxLeases)
    \/ CheckAndDefault(MaxLedger, MaxLeases)
    \/ CheckLeaseForDefault(MaxLedger, MaxLeases)
    \/ AttemptPayment(NoFail, MaxLedger, MaxLeases)
    \/ ProcessEarlyPayoff(NoFail, MaxLedger, MaxLeases)
    \/ SchedulePaymentsForLease(NoFail, MaxLedger, MaxLeases)
    \/ RetryFailedPayment(NoFail, MaxLedger, MaxLeases)
    \/ ProcessDuePayments(MaxLedger, MaxLeases)
    \/ LedgerUpdate(MaxLedger, MaxLeases)
    \/ LedgerDelete(MaxLedger, MaxLeases)

Spec == Init /\ [][Next]_vars

\* One lease followed through its whole life: every handler that reads or
\* writes a lease or payment status, with a ledger long enough for three
\* failed payments.
NextLease ==
    \/ CreateLease(NoFail, DeepLedger, DeepLeases)
    \/ UpdateLeaseStatus(DeepLedger, DeepLeases)
    \/ CheckAndActivate(DeepLedger, DeepLeases)
    \/ CheckAndComplete(DeepLedger, DeepLeases)
    \/ CheckAndDefault(DeepLedger, DeepLeases)
    \/ CheckLeaseForDefault(DeepLedger, DeepLeases)
    \/ AttemptPayment(NoFail, DeepLedger, DeepLeases)
    \/ ProcessEarlyPayoff(NoFail, DeepLedger, DeepLeases)
    \/ RetryFailedPayment(NoFail, DeepLedger, DeepLeases)
    \/ ProcessDuePayments(DeepLedger, DeepLeases)

SpecLease == Init /\ [][NextLease]_vars

\* One lease whose payments are attempted through the route and through the
\* retry tasks, against a gateway that declines every charge, until the
\* retries of one of them are used up.
NextExhaust ==
    \/ CreateLease(NoFail, ExhaustLedger, DeepLeases)
    \/ CheckAndActivate(ExhaustLedger, DeepLeases)
    \/ \E p \in DOMAIN payments :
          AttemptPaymentCall(p, "FAILURE", "none", ExhaustLedger, DeepLeases)
    \/ \E t \in retry_queue \cup
                 {Task(p, payments[p].lease_id, payments[p].amount, 1) :
                     p \in DOMAIN payments} :
          RetryFailedPaymentCall(t, "FAILURE", "none", ExhaustLedger, DeepLeases)

SpecExhaust == Init /\ [][NextExhaust]_vars

\* The handlers that write several tables, in an environment where one
\* database, bus or gateway call may fail.
NextFault ==
    \/ CreateLease(CreateFailPoints, FaultLedger, DeepLeases)
    \/ SchedulePaymentsForLease(ScheduleFailPoints, FaultLedger, DeepLeases)
    \/ AttemptPayment(AttemptFailPoints, FaultLedger, DeepLeases)
    \/ ProcessEarlyPayoff(PayoffFailPoints, FaultLedger, DeepLeases)
    \/ CheckAndComplete(FaultLedger, DeepLeases)

SpecFault == Init /\ [][NextFault]_vars

\* The clock moves on by one installment period.
Tick ==
    /\ now < MaxTicks * PeriodDays
    /\ now' = now + PeriodDays
    /\ UNCHANGED <<leases, payments, ledger, ledgerSeq, idempotency_keys,
                   published, retry_queue, faults, writers, last>>
    /\ UNCHANGED aside

\* The daily process_due_payments run and the retry tasks, for one lease
\* whose installments fall due as the clock moves.
NextDue ==
    \/ CreateLease(NoFail, DeepLedger, DeepLeases)
    \/ Tick
    \/ ProcessDuePayments(DeepLedger, DeepLeases)
    \/ RetryFailedPayment(NoFail, DeepLedger, DeepLeases)

SpecDue == Init /\ [][NextDue]_vars

\* A response a caller caches under its key once its operation is done.
SampleResponse ==
    [lease_id |-> 1, customer_id |-> "CUST-A", principal_amount |-> 1000,
     term_months |-> 1, status |-> "PENDING"]

\* A day passes: datetime.utcnow() moves on by the ttl of a key.
DayPasses ==
    /\ now < MaxDays
    /\ now' = now + TtlDays
    /\ UNCHANGED <<leases, payments, ledger, ledgerSeq, idempotency_keys,
                   published, retry_queue, faults, writers, callers, computed,
                   consumer, last>>

\* create_lease called again and again, by clients that retry after a
\* failure, in an environment where one database or bus call may fail.
NextRecreate ==
    \/ CreateLease(CreateFailPoints, FaultLedger, MaxLeases)
    \/ DayPasses

SpecRecreate == Init /\ [][NextRecreate]_vars

\* One check_and_store call that runs while no other call is in progress.
CheckAndStore(c, k) ==
    /\ \A s \in Sessions : callers[s].pc = "idle"
    /\ LET r == check_and_store(idempotency_keys, k, "CREATE_LEASE",
                                NoneResponse, TtlDays)
       IN  /\ idempotency_keys' = r.keys
           /\ callers' = [callers EXCEPT ![c].result =
                              [raised |-> FALSE, dup |-> r.dup, cached |-> r.cached]]
           /\ last' = Call("check_and_store", k, FALSE, BoolStr(r.dup))
    /\ UNCHANGED <<leases, payments, ledger, ledgerSeq, published, retry_queue,
                   now, faults, writers, computed, consumer>>

StoreResponse(k) ==
    /\ k \in DOMAIN idempotency_keys
    /\ idempotency_keys' = store_response(idempotency_keys, k, SampleResponse)
    /\ last' = Call("store_response", k, FALSE, "")
    /\ UNCHANGED <<leases, payments, ledger, ledgerSeq, published, retry_queue,
                   now, faults, writers, callers, computed, consumer>>

\* check_and_store running in a session of its own, in two steps: the read
\* of the existing row, and later the expiry test with the delete and the
\* insert, here taken together with the commit that makes them visible.
CallerRead(c, k) ==
    /\ callers[c].pc = "idle"
    /\ callers' = [callers EXCEPT ![c] =
                      [pc |-> "read", key |-> k,
                       existing |-> get_by_key(idempotency_keys, k),
                       result |-> NoCall.result]]
    /\ UNCHANGED <<leases, payments, ledger, ledgerSeq, idempotency_keys,
                   published, retry_queue, now, faults, writers, computed,
                   consumer, last>>

CallerWrite(c) ==
    /\ callers[c].pc = "read"
    /\ LET r == store_after_read(idempotency_keys, callers[c].key,
                                 callers[c].existing, "CREATE_LEASE",
                                 NoneResponse, TtlDays)
       IN  /\ idempotency_keys' = r.keys
           /\ callers' = [callers EXCEPT ![c] =
                             [NoCall EXCEPT !.key = callers[c].key,
                                            !.result = [raised |-> r.raised,
                                                        dup |-> r.dup,
                                                        cached |-> r.cached]]]
           /\ last' = Call("check_and_store", callers[c].key, r.raised,
                           BoolStr(r.dup))
    /\ UNCHANGED <<leases, payments, ledger, ledgerSeq, published, retry_queue,
                   now, faults, writers, computed, consumer>>

NextIdem ==
    \/ DayPasses
    \/ \E c \in Sessions, k \in Keys : CheckAndStore(c, k)
    \/ \E k \in Keys : StoreResponse(k)
    \/ \E c \in Sessions, k \in Keys : CallerRead(c, k)
    \/ \E c \in Sessions : CallerWrite(c)

SpecIdem == Init /\ [][NextIdem]_vars

\* The database and the clock stay as they are while a function is computed.
Computing ==
    UNCHANGED <<leases, payments, ledger, ledgerSeq, idempotency_keys,
                published, retry_queue, now, faults, writers, callers, consumer,
                last>>

\* PaymentScheduleGenerator.generate_equal_installments on a principal in
\* cents and a term that pass its two guards.
InitSchedule ==
    /\ InitDb
    /\ computed \in {[fn |-> "generate_equal_installments",
                       args |-> <<p, t>>, done |-> FALSE, out |-> << >>] :
                         p \in SchedulePrincipals, t \in ScheduleTerms}

GenerateEqualInstallments ==
    /\ computed.fn = "generate_equal_installments"
    /\ ~computed.done
    /\ computed' = [computed EXCEPT
                       !.done = TRUE,
                       !.out = generate_equal_installments(0, computed.args[1],
                                                           computed.args[2])]
    /\ Computing

SpecSchedule == InitSchedule /\ [][GenerateEqualInstallments]_vars

\* PaymentService.calculate_early_payoff on the payment rows of one lease:
\* a generated schedule whose rows are in any mix of statuses.
ScheduleRows(principal, term, statuses) ==
    LET sched == generate_equal_installments(1, principal, term)
    IN  [p \in {<<1, n>> : n \in 1..term} |->
            [PaymentRow(sched[p[2]]) EXCEPT !.status = statuses[p[2]]]]

InitPayoff ==
    /\ InitDb
    /\ computed \in {[fn |-> "calculate_early_payoff",
                       args |-> <<ScheduleRows(p, t, st)>>,
                       done |-> FALSE, out |-> << >>] :
                         p \in PayoffPrincipals,
                         <<t, st>> \in UNION {{<<n, s>> : s \in [1..n -> PaymentStatus]} :
                                                n \in PayoffTerms}}

CalculateEarlyPayoff ==
    /\ computed.fn = "calculate_early_payoff"
    /\ ~computed.done
    /\ computed' = [computed EXCEPT
                       !.done = TRUE,
                       !.out = calculate_early_payoff(
                                  [World EXCEPT !.payments = computed.args[1]], 1)]
    /\ Computing

SpecPayoff == InitPayoff /\ [][CalculateEarlyPayoff]_vars

\* HistoricalStateReconstructor.reconstruct_lease_state on a list of ledger
\* rows of one lease, of every event type the ledger knows and one it does
\* not fold.
HistoryEvents ==
    {LeaseCreatedEvent(1, 1000),
     PaymentAttemptedEvent(<<1, 1>>, 1, 1),
     PaymentSucceededEvent(<<1, 1>>, 1, 500),
     PaymentSucceededEvent(<<1, 2>>, 1, 300),
     PaymentFailedEvent(<<1, 1>>, 1, TRUE, 1),
     LeaseCompletedEvent(1),
     Event("LEASE_DEFAULTED", 1, PayoffId, 0, NoAmount, NoAmount, FALSE)}

LedgerRow(event, id) ==
    [id |-> id, lease_id |-> event.lease_id, event_type |-> event.event_type,
     event_payload |-> event, amount |-> 0, created_at |-> now]

InitHistory ==
    /\ InitDb
    /\ computed \in {[fn |-> "reconstruct_lease_state",
                       args |-> <<[i \in 1..n |-> LedgerRow(es[i], i)]>>,
                       done |-> FALSE, out |-> << >>] :
                         <<n, es>> \in UNION {{<<m, s>> : s \in [1..m -> HistoryEvents]} :
                                                m \in 0..MaxHistory}}

ReconstructLeaseState ==
    /\ computed.fn = "reconstruct_lease_state"
    /\ ~computed.done
    /\ computed' = [computed EXCEPT
                       !.done = TRUE,
                       !.out = reconstruct_lease_state(computed.args[1], NoTime)]
    /\ Computing

SpecHistory == InitHistory /\ [][ReconstructLeaseState]_vars

\* reconstruct_lease_state with a point in time, on rows in id order whose
\* created_at need not grow with the id: each row carries the clock reading
\* of the transaction that wrote it.
TimedEvents ==
    {LeaseCreatedEvent(1, 1000), PaymentSucceededEvent(<<1, 1>>, 1, 500),
     PaymentFailedEvent(<<1, 1>>, 1, TRUE, 1), LeaseCompletedEvent(1)}

InitTimedHistory ==
    /\ InitDb
    /\ computed \in
         {[fn |-> "reconstruct_lease_state",
           args |-> <<[i \in 1..n |->
                         [LedgerRow(h[1][i], i) EXCEPT !.created_at = h[2][i]]],
                      point_in_time>>,
           done |-> FALSE, out |-> << >>] :
             <<n, h>> \in UNION {{<<m, g>> :
                                    g \in [1..m -> TimedEvents] \X [1..m -> 1..MaxTime]} :
                                  m \in 0..MaxTimed},
             point_in_time \in 1..MaxTime}

ReconstructLeaseStateAt ==
    /\ computed.fn = "reconstruct_lease_state"
    /\ ~computed.done
    /\ computed' = [computed EXCEPT
                       !.done = TRUE,
                       !.out = reconstruct_lease_state(computed.args[1],
                                                       computed.args[2])]
    /\ Computing

SpecTimedHistory == InitTimedHistory /\ [][ReconstructLeaseStateAt]_vars

\* RetryConfig(base_delay_seconds, max_delay_seconds, backoff_multiplier,
\* jitter): the defaults, the payment configuration and the tests' values.
RetryConfigs ==
    [base_delay_seconds : {60, 1000}, max_delay_seconds : {3600},
     backoff_multiplier : {2, 6}, jitter : BOOLEAN]

\* random.uniform(0, delay * 0.1) as a share of the 10 percent, in percent
\* of the delay: none, half and all of it.
JitterPercents == {0, 5, 10}

RECURSIVE Power(_, _)
Power(b, n) == IF n = 0 THEN 1 ELSE b * Power(b, n - 1)

\* RetryConfig.calculate_delay; int() drops the fraction of the jitter
calculate_delay(config, attempt_number, jitter_percent) ==
    LET raw    == config.base_delay_seconds
                    * Power(config.backoff_multiplier, attempt_number)
        capped == IF raw < config.max_delay_seconds THEN raw
                  ELSE config.max_delay_seconds
    IN  IF config.jitter THEN capped + (capped * jitter_percent) \div 100
        ELSE capped

\* The delays of attempts 0, 1, 2, ... of one configuration, one
\* calculate_delay call at a time.
InitBackoff ==
    /\ InitDb
    /\ computed \in {[fn |-> "calculate_delay", args |-> <<c>>,
                       done |-> FALSE, out |-> << >>] : c \in RetryConfigs}

CalculateDelay ==
    /\ computed.fn = "calculate_delay"
    /\ Len(computed.out) <= MaxBackoff
    /\ \E j \in JitterPercents :
          computed' = [computed EXCEPT
                          !.done = TRUE,
                          !.out = Append(@, calculate_delay(computed.args[1],
                                                            Len(computed.out), j))]
    /\ Computing

SpecBackoff == InitBackoff /\ [][CalculateDelay]_vars

\* The messages a consumer receives from its topics.
Messages ==
    {[kind |-> "event", event |-> LeaseCreatedEvent(1, 1000)],
     [kind |-> "event", event |-> PaymentFailedEvent(<<1, 1>>, 1, TRUE, 1)],
     [kind |-> "event", event |-> LeaseCompletedEvent(1)],
     [kind |-> "invalid", event |-> LeaseCompletedEvent(0)],
     [kind |-> "array", event |-> LeaseCompletedEvent(0)]}

HandlersOf(message) ==
    IF message.kind = "event" /\ message.event.event_type \in HandledTypes
    THEN consumer.handlers[message.event.event_type]
    ELSE << >>

Consuming ==
    UNCHANGED <<leases, payments, ledger, ledgerSeq, idempotency_keys,
                published, retry_queue, now, faults, writers, callers, computed>>

RegisterHandler(t, h) ==
    /\ Len(consumer.handlers["LEASE_CREATED"])
         + Len(consumer.handlers["PAYMENT_FAILED"]) < MaxHandlers
    /\ consumer' = [consumer EXCEPT !.handlers = register_handler(@, t, h)]
    /\ last' = Call("register_handler", 0, FALSE, t)
    /\ Consuming

\* One turn of start()'s loop: a message is received and handled; an
\* exception that leaves _handle_message stops the consumer.
HandleMessageCall(m, raises) ==
    /\ consumer.running
    /\ consumer.received < MaxMessages
    /\ LET r == _handle_message(consumer, m, raises)
       IN  /\ consumer' = [r.c EXCEPT !.received = @ + 1,
                                      !.running = ~r.raised]
           /\ last' = Call("_handle_message", consumer.received + 1, r.raised,
                           m.kind)
    /\ Consuming

HandleMessage ==
    \E m \in Messages :
        \E raises \in [1..Len(HandlersOf(m)) -> BOOLEAN] :
            HandleMessageCall(m, raises)

NextConsumer ==
    \/ \E t \in HandledTypes, h \in Handlers : RegisterHandler(t, h)
    \/ HandleMessage

SpecConsumer == Init /\ [][NextConsumer]_vars

\* Redis LREM key 1 value: the first element equal to value leaves the list.
RECURSIVE lrem_first(_, _)
lrem_first(list, value) ==
    IF list = << >> THEN << >>
    ELSE IF Head(list) = value THEN Tail(list)
    ELSE <<Head(list)>> \o lrem_first(Tail(list), value)

\* An acknowledge that takes the newest entry off the list.
acknowledge_newest(dlq, dlq_id) ==
    IF \E idx \in 1..Len(dlq) : dlq[idx].dlq_id = dlq_id
    THEN [dlq |-> Tail(dlq), ret |-> TRUE]
    ELSE [dlq |-> dlq, ret |-> FALSE]

\* DeadLetterQueue.acknowledge: the first entry read by lrange that carries
\* dlq_id is removed by value.
acknowledge(dlq, dlq_id) ==
    LET found == {idx \in 1..Len(dlq) : dlq[idx].dlq_id = dlq_id}
    IN  IF found # {}
        THEN LET idx == CHOOSE i \in found : \A j \in found : i <= j
             IN  [dlq |-> lrem_first(dlq, dlq[idx]), ret |-> TRUE]
        ELSE [dlq |-> dlq, ret |-> FALSE]

\* DeadLetterQueue.get_dlq_count: llen
get_dlq_count(dlq) == Len(dlq)

\* DeadLetterQueue.clear_dlq: the key is deleted
clear_dlq(dlq) == [dlq |-> << >>, ret |-> TRUE]

Acknowledge(dlq_id) ==
    /\ LET r == acknowledge(consumer.dlq, dlq_id)
       IN  /\ consumer' = [consumer EXCEPT !.dlq = r.dlq]
           /\ last' = Call("acknowledge", dlq_id, FALSE, BoolStr(r.ret))
    /\ Consuming

GetDlqCount ==
    /\ last' = Call("get_dlq_count", get_dlq_count(consumer.dlq), FALSE, "")
    /\ UNCHANGED consumer
    /\ Consuming

ClearDlq ==
    /\ LET r == clear_dlq(consumer.dlq)
       IN  /\ consumer' = [consumer EXCEPT !.dlq = r.dlq]
           /\ last' = Call("clear_dlq", 0, FALSE, BoolStr(r.ret))
    /\ Consuming

\* The consumer fills the queue while an operator manages it.
NextDlq ==
    \/ \E t \in HandledTypes, h \in Handlers : RegisterHandler(t, h)
    \/ HandleMessage
    \/ \E dlq_id \in 1..(MaxHandlers + 1) : Acknowledge(dlq_id)
    \/ GetDlqCount
    \/ ClearDlq

SpecDlq == Init /\ [][NextDlq]_vars

\* A loop that stops one invocation early.
retry_iteration_one_short(config, max_retries, run, succeeds, jitter_percent) ==
    LET attempt == run.calls
    IN  IF succeeds
        THEN [run EXCEPT !.calls = @ + 1, !.status = "returned",
                         !.value = <<"result", attempt + 1>>]
        ELSE IF attempt + 1 < max_retries
        THEN [run EXCEPT !.calls = @ + 1,
                         !.slept = Append(@, calculate_delay(config, attempt,
                                                             jitter_percent))]
        ELSE [run EXCEPT !.calls = @ + 1, !.status = "raised",
                         !.value = <<"error", attempt + 1>>]

\* One turn of retry_with_backoff's loop, for attempt = run.calls: func is
\* invoked and either returns, which ends the call, or raises; the exception
\* is kept, and the loop sleeps calculate_delay(attempt) or, on the last
\* turn, ends and the kept exception is raised.
retry_iteration(config, max_retries, run, succeeds, jitter_percent) ==
    LET attempt == run.calls
    IN  IF succeeds
        THEN [run EXCEPT !.calls = @ + 1, !.status = "returned",
                         !.value = <<"result", attempt + 1>>]
        ELSE IF attempt < max_retries
        THEN [run EXCEPT !.calls = @ + 1,
                         !.slept = Append(@, calculate_delay(config, attempt,
                                                             jitter_percent))]
        ELSE [run EXCEPT !.calls = @ + 1, !.status = "raised",
                         !.value = <<"error", attempt + 1>>]

InitRetry ==
    /\ InitDb
    /\ computed \in {[fn |-> "retry_with_backoff", args |-> <<c, m>>,
                       done |-> FALSE,
                       out |-> [calls |-> 0, status |-> "running",
                                value |-> << >>, slept |-> << >>]] :
                         c \in RetryConfigs, m \in 0..MaxRetries}

RetryInvoke ==
    /\ computed.fn = "retry_with_backoff"
    /\ computed.out.status = "running"
    /\ \E succeeds \in BOOLEAN, j \in JitterPercents :
          LET run == retry_iteration(computed.args[1], computed.args[2],
                                     computed.out, succeeds, j)
          IN  computed' = [computed EXCEPT !.out = run,
                                           !.done = run.status # "running"]
    /\ Computing

\* asyncio.sleep returns and func returns or raises, so the loop goes on.
SpecRetry == InitRetry /\ [][RetryInvoke]_vars /\ WF_vars(RetryInvoke)

\* Two update_lease_status calls running concurrently, each in its own
\* session: a call reads the row and validates the transition, and later
\* writes the status and commits.  Nothing locks the row in between.
WriterValidate(wr, l, s) ==
    /\ writers[wr].pc = "idle"
    /\ l \in DOMAIN leases
    /\ IF can_transition(leases[l].status, s)
       THEN /\ writers' = [writers EXCEPT ![wr] =
                              [pc |-> "validated", lease_id |-> l,
                               new_status |-> s]]
            /\ UNCHANGED last
       ELSE /\ last' = Call("update_lease_status", l, TRUE, s)
            /\ UNCHANGED writers
    /\ UNCHANGED <<leases, payments, ledger, ledgerSeq, idempotency_keys,
                   published, retry_queue, now, faults>>
    /\ UNCHANGED aside

WriterCommit(wr) ==
    /\ writers[wr].pc = "validated"
    /\ leases' = [leases EXCEPT ![writers[wr].lease_id].status =
                                    writers[wr].new_status]
    /\ writers' = [writers EXCEPT ![wr] = Idle]
    /\ last' = Call("update_lease_status", writers[wr].lease_id, FALSE,
                    writers[wr].new_status)
    /\ UNCHANGED <<payments, ledger, ledgerSeq, idempotency_keys, published,
                   retry_queue, now, faults>>
    /\ UNCHANGED aside

NextConc ==
    \/ CreateLease(NoFail, DeepLedger, DeepLeases)
    \/ \E wr \in Writers, l \in DOMAIN leases, s \in LeaseStatus :
          WriterValidate(wr, l, s)
    \/ \E wr \in Writers : WriterCommit(wr)

SpecConc == Init /\ [][NextConc]_vars

\* The routes of the payment API.  POST /payments/{id}/attempt, two requests
\* at a time, each in its own session: the handler reads the payment row,
\* answers 409 for a PAID or CANCELLED one, and later calls attempt_payment
\* with retry_count + 1 of the row it read.  Nothing locks the row in
\* between.
AttemptRouteRead(wr, p) ==
    /\ writers[wr].pc = "idle"
    /\ IF payments[p].status \in {"PAID", "CANCELLED"}
       THEN /\ last' = Call("attempt_payment_route", payments[p].lease_id,
                            TRUE, "409")
            /\ UNCHANGED writers
       ELSE /\ writers' = [writers EXCEPT ![wr] =
                              [pc |-> "read", payment_id |-> p,
                               attempt_number |-> payments[p].retry_count + 1]]
            /\ last' = Call("attempt_payment_route", payments[p].lease_id,
                            FALSE, "read")
    /\ UNCHANGED <<leases, payments, ledger, ledgerSeq, idempotency_keys,
                   published, retry_queue, now, faults>>
    /\ UNCHANGED aside

AttemptRouteCall(wr, res) ==
    /\ writers[wr].pc = "read"
    /\ LET p == writers[wr].payment_id
           r == attempt_payment(World, p, payments[p].lease_id,
                                payments[p].amount, writers[wr].attempt_number,
                                res, "none")
       IN  /\ Len(r.w.ledger) <= RouteLedger
           /\ leases' = r.w.leases
           /\ payments' = r.w.payments
           /\ ledger' = r.w.ledger
           /\ ledgerSeq' = r.w.seq
           /\ idempotency_keys' = r.w.keys
           /\ published' = r.w.published
           /\ retry_queue' = r.w.queue
           /\ last' = Call("attempt_payment_route", payments[p].lease_id,
                           r.raised, r.ret)
    /\ writers' = [writers EXCEPT ![wr] = Idle]
    /\ UNCHANGED <<now, faults>>
    /\ UNCHANGED aside

\* A payoff route that passes every lease on to the service.
process_early_payoff_route_unchecked(w, lease_id, result, fail) ==
    IF lease_id \notin DOMAIN w.leases THEN Result(w, TRUE, "404")
    ELSE LET r == process_early_payoff(w, lease_id, result, fail)
         IN  IF r.raised THEN Result(r.w, TRUE, "500")
             ELSE Result(r.w, FALSE, "200")

\* POST /leases/{id}/payoff: 404 without the lease, 400 unless it is ACTIVE
\* or PENDING, 500 when the service raises.
process_early_payoff_route(w, lease_id, result, fail) ==
    IF lease_id \notin DOMAIN w.leases THEN Result(w, TRUE, "404")
    ELSE IF w.leases[lease_id].status \notin {"ACTIVE", "PENDING"}
    THEN Result(w, TRUE, "400")
    ELSE LET r == process_early_payoff(w, lease_id, result, fail)
         IN  IF r.raised THEN Result(r.w, TRUE, "500")
             ELSE Result(r.w, FALSE, "200")

\* One lease, its status moved by the lease service, its payments attempted
\* by two clients of the attempt route, and its payoff asked for through the
\* route and from the service itself.
NextRoutes ==
    \/ CreateLease(NoFail, RouteLedger, DeepLeases)
    \/ UpdateLeaseStatus(RouteLedger, DeepLeases)
    \/ \E wr \in Writers, p \in DOMAIN payments : AttemptRouteRead(wr, p)
    \/ \E wr \in Writers, res \in PaymentResult : AttemptRouteCall(wr, res)
    \/ \E l \in DOMAIN leases, res \in PaymentResult :
          LET r == process_early_payoff_route(World, l, res, "none")
          IN  /\ Apply(r, "none", RouteLedger, DeepLeases)
              /\ last' = Call("process_early_payoff_route", l, r.raised, r.ret)
    \/ ProcessEarlyPayoff(NoFail, RouteLedger, DeepLeases)

SpecRoutes == Init /\ [][NextRoutes]_vars

(* ----------------------------- properties ----------------------------- *)
TerminalStatus == {"COMPLETED", "DEFAULTED"}

FinalPaymentStatus == {"PAID", "CANCELLED"}

\* Key k is live and holds the response of an earlier create_lease(c, pa, t).
HoldsResponse(k, c, pa, t) ==
    /\ k \in DOMAIN idempotency_keys
    /\ idempotency_keys[k].expires_at > now
    /\ idempotency_keys[k].response_payload.lease_id \in DOMAIN leases
    /\ idempotency_keys[k].response_payload.customer_id = c
    /\ idempotency_keys[k].response_payload.principal_amount = pa
    /\ idempotency_keys[k].response_payload.term_months = t

\* C1: a create_lease call whose idempotency key is live and holds the
\* response of an earlier call with the same arguments returns that call's
\* lease id and adds no lease row, no payment row and no ledger entry.
C1_SameKeySameLease ==
    [][\A c \in Customers, pa \in Principals, t \in Terms, k \in Keys :
          (/\ HoldsResponse(k, c, pa, t)
           /\ CreateLeaseCall(c, pa, t, k, "none", MaxLedger, MaxLeases))
          => /\ last'.id = idempotency_keys[k].response_payload.lease_id
             /\ leases' = leases
             /\ payments' = payments
             /\ ledger' = ledger]_vars

\* C2: once a lease row is COMPLETED or DEFAULTED, no step of
\* update_lease_status, check_and_activate, check_and_complete,
\* check_and_default, check_lease_for_default or process_early_payoff (or of
\* any other handler) changes its status.
C2_TerminalStatusIsFinal ==
    [][\A l \in DOMAIN leases :
          leases[l].status \in TerminalStatus
          => leases'[l].status = leases[l].status]_vars

\* check_and_default has just run on a completed lease that has three
\* failed payments
C2_TerminalLeaseChallenged ==
    \E l \in DOMAIN leases :
        /\ leases[l].status = "COMPLETED"
        /\ count_failed_by_lease(World, l) >= DefaultAfter
        /\ last = Call("check_and_default", l, FALSE, "False")

\* C3: in every committed state the status that reconstruct_lease_state
\* folds out of a lease's ledger history equals the lease row's status.
C3_FoldStatusEqualsRowStatus ==
    \A l \in DOMAIN leases :
        reconstruct_lease_state(get_lease_history(ledger, l, 0, DefaultLimit),
                                NoTime).status = leases[l].status

\* C4: a call of attempt_payment that raises leaves no ledger entry of its
\* own behind and leaves every payment row as it was.
C4_AttemptAllOrNothing ==
    [][(last'.op = "attempt_payment" /\ last'.raised)
          => (ledger' = ledger /\ payments' = payments)]_vars

\* C5: a call of create_lease that raises leaves no lease row, no payment
\* row and no ledger entry of its own behind.
C5_CreateAllOrNothing ==
    [][(last'.op = "create_lease" /\ last'.raised)
          => (leases' = leases /\ payments' = payments /\ ledger' = ledger)]_vars

\* C6: with two concurrent status writers on one lease, the lease row never
\* goes from one terminal status to the other: the second writer is blocked
\* or fails.
C6_OneTerminalTransition ==
    [][\A l \in DOMAIN leases :
          ~ /\ leases[l].status \in TerminalStatus
            /\ leases'[l].status \in TerminalStatus
            /\ leases'[l].status # leases[l].status]_vars

\* C7: no step of attempt_payment, retry_failed_payment, process_due_payments
\* or process_early_payoff changes the status of a payment row that is PAID
\* or CANCELLED.
C7_FinalPaymentStatusIsFinal ==
    [][\A p \in DOMAIN payments :
          payments[p].status \in FinalPaymentStatus
          => payments'[p].status = payments[p].status]_vars

\* C8: LedgerRepository.update and LedgerRepository.delete raise for an
\* existing and for a non-existing id and change nothing, and every step
\* keeps the ledger's rows and only appends to them.
C8_LedgerAppendOnly ==
    [][/\ last'.op \in {"ledger_update", "ledger_delete"}
            => (last'.raised /\ ledger' = ledger)
       /\ Len(ledger') >= Len(ledger)
       /\ SubSeq(ledger', 1, Len(ledger)) = ledger]_vars

\* update and delete have been refused on a ledger row that exists
C8_MutationRefused ==
    /\ last.op \in {"ledger_update", "ledger_delete"}
    /\ last.raised
    /\ \E i \in DOMAIN ledger : ledger[i].id = last.id

C10_PublishedIsRecorded ==
    \A e \in published :
        \E i \in DOMAIN ledger :
            /\ ledger[i].event_type = e.event_type
            /\ ledger[i].lease_id = e.lease_id
            /\ ledger[i].event_payload = e

\* create_lease, schedule_payments_for_lease and attempt_payment have all
\* published, and one environment failure has happened
C10_AllPublishersActed ==
    /\ \A t \in {"LEASE_CREATED", "PAYMENT_SCHEDULED", "PAYMENT_ATTEMPTED"} :
          \E e \in published : e.event_type = t
    /\ faults = MaxFaults

\* C11: an outcome event (PAYMENT_SUCCEEDED, PAYMENT_FAILED) reaches the bus
\* only when the payment row it describes is committed: in the state in
\* which the event is first on the bus the row shows the outcome's status
\* (and, for a failure, the attempt number as retry_count).
C11_OutcomePublishedAfterRowCommit ==
    [][\A e \in published' \ published :
          (e.event_type \in {"PAYMENT_SUCCEEDED", "PAYMENT_FAILED"}
             /\ e.payment_id \in DOMAIN payments')
          => IF e.event_type = "PAYMENT_SUCCEEDED"
             THEN payments'[e.payment_id].status = "PAID"
             ELSE /\ payments'[e.payment_id].status = "FAILED"
                  /\ payments'[e.payment_id].retry_count = e.attempt_number]_vars

PublishFailPoints == {"publish_attempted", "publish_outcome"}

\* C12: a failed publish is not surfaced and rolls nothing back:
\* attempt_payment whose publish fails still returns PAID / FAILED with the
\* payment row written, and create_lease whose publish fails still returns
\* the lease with its rows and ledger entry in place.
C12_PublishFailureNotSurfaced ==
    [][/\ \A p \in DOMAIN payments, res \in PaymentResult,
             f \in PublishFailPoints :
             AttemptPaymentCall(p, res, f, FaultLedger, DeepLeases)
             => /\ ~last'.raised
                /\ last'.ret = (IF res = "SUCCESS" THEN "PAID" ELSE "FAILED")
                /\ payments'[p].status = last'.ret
                /\ Len(ledger') = Len(ledger) + 2
       /\ \A c \in Customers, pa \in Principals, t \in Terms, k \in Keys :
             CreateLeaseCall(c, pa, t, k, "publish", FaultLedger, DeepLeases)
             => /\ ~last'.raised
                /\ last'.id \in DOMAIN leases'
                /\ Len(ledger') = Len(ledger) + 1]_vars

\* C13: process_due_payments makes attempt 1 of every due PENDING payment
\* (a PAYMENT_ATTEMPTED entry with attempt_number 1 is appended for it), and
\* a retry task that is enqueued carries an attempt number from 2 to 3.
C13_DueChainMakesAttempts ==
    [][/\ last'.op = "process_due_payments"
            => \A p \in get_due_payments(World) :
                  \E i \in DOMAIN ledger' :
                      /\ i > Len(ledger)
                      /\ ledger'[i].event_type = "PAYMENT_ATTEMPTED"
                      /\ ledger'[i].event_payload.payment_id = p
                      /\ ledger'[i].event_payload.attempt_number = 1
       /\ \A t \in retry_queue' \ retry_queue :
             t.attempt_number \in 2..MaxAttempts]_vars

\* The ledger entries of one payment in ledger order, as <<type, attempt>>.
RECURSIVE PaymentTrail(_, _)
PaymentTrail(led, p) ==
    IF led = << >> THEN << >>
    ELSE IF Head(led).event_payload.payment_id = p
         THEN <<<<Head(led).event_type, Head(led).event_payload.attempt_number>>>>
              \o PaymentTrail(Tail(led), p)
         ELSE PaymentTrail(Tail(led), p)

\* Attempts 1..k failed, attempt k+1 succeeded.
RECURSIVE FailedThenPaid(_, _)
FailedThenPaid(n, k) ==
    IF n > k THEN <<<<"PAYMENT_ATTEMPTED", n>>, <<"PAYMENT_SUCCEEDED", 0>>>>
    ELSE <<<<"PAYMENT_ATTEMPTED", n>>, <<"PAYMENT_FAILED", n>>>>
         \o FailedThenPaid(n + 1, k)

\* C14: a payment whose attempts 1..k failed and whose attempt k+1 succeeded
\* (k in 0..2) is PAID with retry_count k; and every attempt n appends a
\* PAYMENT_ATTEMPTED entry followed by its outcome entry, leaving the row
\* PAID with retry_count n-1 on success and FAILED with retry_count n on
\* failure.
C14_RetryTrailAndRow ==
    /\ [](\A p \in DOMAIN payments, k \in 0..(MaxAttempts - 1) :
            PaymentTrail(ledger, p) = FailedThenPaid(1, k)
            => /\ payments[p].status = "PAID"
               /\ payments[p].retry_count = k)
    /\ [][\A p \in DOMAIN payments, res \in PaymentResult :
            (/\ last'.op = "attempt_payment"
             /\ AttemptPaymentCall(p, res, "none", DeepLedger, DeepLeases))
            => LET n == payments[p].retry_count + 1
                   m == Len(ledger)
               IN  /\ ~last'.raised
                   /\ Len(ledger') = m + 2
                   /\ PaymentTrail(SubSeq(ledger', m + 1, m + 2), p)
                        = IF res = "SUCCESS"
                          THEN <<<<"PAYMENT_ATTEMPTED", n>>, <<"PAYMENT_SUCCEEDED", 0>>>>
                          ELSE <<<<"PAYMENT_ATTEMPTED", n>>, <<"PAYMENT_FAILED", n>>>>
                   /\ payments'[p].status
                        = (IF res = "SUCCESS" THEN "PAID" ELSE "FAILED")
                   /\ payments'[p].retry_count
                        = (IF res = "SUCCESS" THEN n - 1 ELSE n)]_vars

C14_ThirdAttemptPaid ==
    \E p \in DOMAIN payments :
        /\ PaymentTrail(ledger, p) = FailedThenPaid(1, 2)
        /\ payments[p].status = "PAID"
        /\ payments[p].retry_count = 2
        /\ last = Call("attempt_payment", payments[p].lease_id, FALSE, "PAID")

\* C15: on an ACTIVE lease check_and_default and check_lease_for_default
\* return true and leave the lease DEFAULTED when it has at least 3 FAILED
\* payments, and return false leaving the lease rows unchanged when it has
\* fewer; update_lease_status on a DEFAULTED lease raises and changes nothing.
C15_DefaultAtThreeFailures ==
    [][\A l \in DOMAIN leases :
          /\ (/\ last'.op \in {"check_and_default", "check_lease_for_default"}
              /\ last'.id = l
              /\ leases[l].status = "ACTIVE")
             => IF count_failed_by_lease(World, l) >= DefaultAfter
                THEN /\ ~last'.raised
                     /\ last'.ret = "True"
                     /\ leases'[l].status = "DEFAULTED"
                ELSE /\ ~last'.raised
                     /\ last'.ret = "False"
                     /\ leases' = leases
          /\ (/\ last'.op = "update_lease_status"
              /\ last'.id = l
              /\ leases[l].status = "DEFAULTED")
             => /\ last'.raised
                /\ leases' = leases]_vars

C15_ActiveLeaseDefaulted ==
    \E l \in DOMAIN leases :
        /\ leases[l].status = "DEFAULTED"
        /\ count_failed_by_lease(World, l) >= DefaultAfter
        /\ last = Call("check_and_default", l, FALSE, "True")

\* C16: check_and_default on a PENDING lease with at least 3 FAILED payments
\* returns true without raising and leaves the lease DEFAULTED.
C16_PendingLeaseDefaults ==
    [][\A l \in DOMAIN leases :
          (/\ last'.op = "check_and_default"
           /\ last'.id = l
           /\ leases[l].status = "PENDING"
           /\ count_failed_by_lease(World, l) >= DefaultAfter)
          => /\ ~last'.raised
             /\ last'.ret = "True"
             /\ leases'[l].status = "DEFAULTED"]_vars

\* C17: update_lease_status on an existing lease succeeds, writing the
\* requested status, exactly for PENDING->ACTIVE, ACTIVE->COMPLETED and
\* ACTIVE->DEFAULTED; for every other pair it raises and leaves the lease
\* rows unchanged.
C17_OnlyTablePairsSucceed ==
    [][\A l \in DOMAIN leases :
          (last'.op = "update_lease_status" /\ last'.id = l)
          => IF <<leases[l].status, last'.ret>>
                  \in {<<"PENDING", "ACTIVE">>, <<"ACTIVE", "COMPLETED">>,
                       <<"ACTIVE", "DEFAULTED">>}
             THEN /\ ~last'.raised
                  /\ leases'[l].status = last'.ret
             ELSE /\ last'.raised
                  /\ leases' = leases]_vars

C17_PendingToDefaultedRejected ==
    \E l \in DOMAIN leases :
        /\ leases[l].status = "PENDING"
        /\ last = Call("update_lease_status", l, TRUE, "DEFAULTED")

\* C18: when a coordinator call makes a lease COMPLETED a LEASE_COMPLETED
\* entry is appended for that lease, and when it makes a lease DEFAULTED a
\* LEASE_DEFAULTED entry is appended for that lease.
C18_TerminalTransitionInLedger ==
    [][\A l \in DOMAIN leases :
          /\ last'.op \in {"check_and_complete", "check_and_default",
                           "check_lease_for_default", "process_early_payoff"}
          /\ leases[l].status # leases'[l].status
          /\ leases'[l].status \in TerminalStatus
          => \E i \in DOMAIN ledger' :
                /\ i > Len(ledger)
                /\ ledger'[i].lease_id = l
                /\ ledger'[i].event_type
                     = (IF leases'[l].status = "COMPLETED"
                        THEN "LEASE_COMPLETED" ELSE "LEASE_DEFAULTED")]_vars

\* C19: check_and_complete returns true without raising and leaves the lease
\* COMPLETED when the lease is ACTIVE with no PENDING and no FAILED payment;
\* otherwise it returns false and changes neither the lease rows nor the
\* ledger.
C19_CompleteExactlyWhenSettled ==
    [][\A l \in DOMAIN leases :
          (last'.op = "check_and_complete" /\ last'.id = l)
          => IF /\ leases[l].status = "ACTIVE"
                /\ count_by_lease_and_status(World, l, "PENDING") = 0
                /\ count_by_lease_and_status(World, l, "FAILED") = 0
             THEN /\ ~last'.raised
                  /\ last'.ret = "True"
                  /\ leases'[l].status = "COMPLETED"
             ELSE /\ ~last'.raised
                  /\ last'.ret = "False"
                  /\ leases' = leases
                  /\ ledger' = ledger]_vars

\* C20: a coordinator call on a lease that already made its transition
\* (check_and_activate on a lease no longer PENDING, check_and_complete on a
\* COMPLETED lease, check_and_default on a DEFAULTED lease) returns false
\* without raising and changes no lease row, payment row or ledger entry.
C20_CoordinatorCallsIdempotent ==
    [][\A l \in DOMAIN leases :
          (/\ last'.id = l
           /\ \/ last'.op = "check_and_activate" /\ leases[l].status # "PENDING"
              \/ last'.op = "check_and_complete" /\ leases[l].status = "COMPLETED"
              \/ last'.op = "check_and_default" /\ leases[l].status = "DEFAULTED")
          => /\ ~last'.raised
             /\ last'.ret = "False"
             /\ leases' = leases
             /\ payments' = payments
             /\ ledger' = ledger]_vars

C20_ActivatedLeaseCheckedAgain ==
    \E l \in DOMAIN leases :
        /\ leases[l].status = "ACTIVE"
        /\ has_next_payment(World, l)
        /\ last = Call("check_and_activate", l, FALSE, "False")

\* C21: when process_early_payoff runs on a PENDING or ACTIVE lease and its
\* payoff charge succeeds, afterwards no payment of the lease is PENDING and
\* the lease is COMPLETED.
C21_PayoffCancelsAndCompletes ==
    [][\A l \in DOMAIN leases :
          (/\ last'.op = "process_early_payoff"
           /\ last'.id = l
           /\ leases[l].status \in {"PENDING", "ACTIVE"}
           /\ \E i \in DOMAIN ledger' :
                 /\ i > Len(ledger)
                 /\ ledger'[i].event_type = "PAYMENT_SUCCEEDED"
                 /\ ledger'[i].event_payload.payment_id = PayoffId)
          => /\ count_by_lease_and_status([World EXCEPT !.payments = payments'],
                                          l, "PENDING") = 0
             /\ leases'[l].status = "COMPLETED"]_vars

\* C22: a check_and_store call that runs alone returns (True, the stored
\* response) and leaves the table unchanged when the key has a record with
\* expires_at > now; otherwise it returns (False, None) and the key's record
\* afterwards is a fresh one (no response, expires_at = now + ttl), every
\* other key's record being unchanged.
C22_CheckAndStoreContract ==
    [][\A c \in Sessions, k \in Keys :
          (last'.op = "check_and_store" /\ CheckAndStore(c, k))
          => IF k \in DOMAIN idempotency_keys
                /\ idempotency_keys[k].expires_at > now
             THEN /\ callers'[c].result
                       = [raised |-> FALSE, dup |-> TRUE,
                          cached |-> idempotency_keys[k].response_payload]
                  /\ idempotency_keys' = idempotency_keys
             ELSE /\ callers'[c].result
                       = [raised |-> FALSE, dup |-> FALSE,
                          cached |-> NoneResponse]
                  /\ DOMAIN idempotency_keys' = DOMAIN idempotency_keys \cup {k}
                  /\ idempotency_keys'[k]
                       = [operation |-> "CREATE_LEASE",
                          response_payload |-> NoneResponse,
                          expires_at |-> now + TtlDays]
                  /\ \A j \in DOMAIN idempotency_keys \ {k} :
                        idempotency_keys'[j] = idempotency_keys[j]]_vars

\* A key whose record held a response was found live by one session, and
\* after it expired another call replaced it with a fresh record.
C22_ExpiredKeyReplaced ==
    \E c \in Sessions, k \in Keys :
        /\ callers[c].result
             = [raised |-> FALSE, dup |-> TRUE, cached |-> SampleResponse]
        /\ k \in DOMAIN idempotency_keys
        /\ idempotency_keys[k].expires_at = now + TtlDays
        /\ idempotency_keys[k].response_payload = NoneResponse
        /\ now > 0
        /\ last = Call("check_and_store", k, FALSE, "False")

\* C23: check_and_store is an atomic check-and-insert: a call that found no
\* live record when it read the key, and reaches its insert after another
\* caller stored a live record for the key, returns a duplicate without
\* failing and leaves that record alone; if there is still no live record it
\* returns (False, None).
C23_AtomicCheckAndInsert ==
    [][\A c \in Sessions :
          (/\ last'.op = "check_and_store"
           /\ CallerWrite(c)
           /\ ~(callers[c].existing # NoRow /\ callers[c].existing.expires_at > now))
          => LET k == callers[c].key
             IN  IF k \in DOMAIN idempotency_keys
                    /\ idempotency_keys[k].expires_at > now
                 THEN /\ ~callers'[c].result.raised
                      /\ callers'[c].result.dup
                      /\ idempotency_keys' = idempotency_keys
                 ELSE /\ ~callers'[c].result.raised
                      /\ ~callers'[c].result.dup]_vars

\* C24: create_lease with principal <= 0 or a term outside 1..60 raises and
\* creates no idempotency record, lease row, payment row or ledger entry and
\* publishes nothing.
C24_InvalidInputsChangeNothing ==
    [][\A c \in Customers, pa \in Principals, t \in Terms, k \in Keys :
          (/\ last'.op = "create_lease"
           /\ pa <= 0 \/ t < 1 \/ t > 60
           /\ CreateLeaseCall(c, pa, t, k, "none", MaxLedger, MaxLeases))
          => /\ last'.raised
             /\ UNCHANGED <<idempotency_keys, leases, payments, ledger,
                            ledgerSeq, published>>]_vars

C24_RejectedAfterValidCreate ==
    /\ last = Call("create_lease", 0, TRUE, "")
    /\ leases # << >>
    /\ idempotency_keys # << >>

RECURSIVE SumOfAmounts(_)
SumOfAmounts(schedule) ==
    IF schedule = << >> THEN 0
    ELSE Head(schedule).amount + SumOfAmounts(Tail(schedule))

\* q is num/den rounded to the nearest integer, ties to the even one.
IsHalfEvenRounding(q, num, den) ==
    LET twice == 2 * (IF den * q >= num THEN den * q - num ELSE num - den * q)
    IN  twice < den \/ (twice = den /\ q % 2 = 0)

\* C25: for a principal > 0 in cents and a term in 1..60 the schedule has
\* term installments numbered 1..term in order, installments 1..term-1 are
\* the half-even rounding of principal/term, the last is the principal minus
\* their sum, and the amounts sum to the principal.
C25_ScheduleSumsToPrincipal ==
    (computed.fn = "generate_equal_installments" /\ computed.done)
    => LET principal == computed.args[1]
           term      == computed.args[2]
           schedule  == computed.out
       IN  /\ DOMAIN schedule = 1..term
           /\ \A n \in 1..term : schedule[n].installment_number = n
           /\ \A n \in 1..(term - 1) :
                 IsHalfEvenRounding(schedule[n].amount, principal, term)
           /\ schedule[term].amount
                = principal - SumOfAmounts(SubSeq(schedule, 1, term - 1))
           /\ SumOfAmounts(schedule) = principal

C25_ThousandOverThree ==
    /\ computed.fn = "generate_equal_installments"
    /\ computed.done
    /\ computed.args = <<100000, 3>>
    /\ [n \in 1..3 |-> computed.out[n].amount] = <<33333, 33333, 33334>>

\* C26: for a principal > 0 in cents and a term in 1..60 every installment
\* amount of the schedule is strictly positive.
C26_EveryInstallmentPositive ==
    (computed.fn = "generate_equal_installments" /\ computed.done)
    => \A n \in DOMAIN computed.out : computed.out[n].amount > 0

\* C27: calculate_early_payoff returns as remaining balance the sum of the
\* amounts of the lease's payments that are not PAID, as discount the
\* half-even rounding to cents of 0.02 * remaining, and a payoff with
\* payoff + discount = remaining.
C27_PayoffPlusDiscountIsRemaining ==
    (computed.fn = "calculate_early_payoff" /\ computed.done)
    => LET rows      == computed.args[1]
           unpaid    == {p \in DOMAIN rows : rows[p].status # "PAID"}
           remaining == computed.out[1]
           payoff    == computed.out[2]
           discount  == computed.out[3]
       IN  /\ remaining = SumAmounts(rows, unpaid)
           /\ IsHalfEvenRounding(discount, 2 * remaining, 100)
           /\ payoff + discount = remaining

C27_SevenHundredRemaining ==
    /\ computed.fn = "calculate_early_payoff"
    /\ computed.done
    /\ computed.out = <<70000, 68600, 1400>>

\* The last position of a history whose event type is in types, 0 if none.
LastOfTypes(events, types) ==
    LET hits == {i \in DOMAIN events : events[i].event_type \in types}
    IN  IF hits = {} THEN 0 ELSE CHOOSE i \in hits : \A j \in hits : j <= i

CountOfType(events, type) ==
    Cardinality({i \in DOMAIN events : events[i].event_type = type})

\* C28: the reconstructed state is the left fold of the history from status
\* PENDING and zero counters: the status is that of the last LEASE_CREATED
\* (ACTIVE), LEASE_COMPLETED or LEASE_DEFAULTED event, lease id and principal
\* are those of the last LEASE_CREATED, total_paid is the amount of the last
\* PAYMENT_SUCCEEDED (not the sum), paid_installments and failed_attempts
\* count the PAYMENT_SUCCEEDED and PAYMENT_FAILED events, and event_count is
\* the number of events.
C28_FoldIsReferenceFold ==
    (computed.fn = "reconstruct_lease_state" /\ computed.done)
    => LET events  == computed.args[1]
           state   == computed.out
           created == LastOfTypes(events, {"LEASE_CREATED"})
           paid    == LastOfTypes(events, {"PAYMENT_SUCCEEDED"})
           moved   == LastOfTypes(events, {"LEASE_CREATED", "LEASE_COMPLETED",
                                           "LEASE_DEFAULTED"})
       IN  /\ state.event_count = Len(events)
           /\ state.paid_installments = CountOfType(events, "PAYMENT_SUCCEEDED")
           /\ state.failed_attempts = CountOfType(events, "PAYMENT_FAILED")
           /\ state.total_paid
                = (IF paid = 0 THEN 0 ELSE events[paid].event_payload.amount)
           /\ state.principal_amount
                = (IF created = 0 THEN 0
                   ELSE events[created].event_payload.principal_amount)
           /\ state.lease_id
                = (IF created = 0 THEN 0 ELSE events[created].event_payload.lease_id)
           /\ state.status
                = (IF moved = 0 THEN "PENDING"
                   ELSE CASE events[moved].event_type = "LEASE_CREATED" -> "ACTIVE"
                          [] events[moved].event_type = "LEASE_COMPLETED" -> "COMPLETED"
                          [] OTHER -> "DEFAULTED")

C28_TwoPaymentsFolded ==
    /\ computed.fn = "reconstruct_lease_state"
    /\ computed.done
    /\ [i \in DOMAIN computed.args[1] |-> computed.args[1][i].event_type]
         = <<"LEASE_CREATED", "PAYMENT_SUCCEEDED", "PAYMENT_SUCCEEDED">>
    /\ computed.args[1][2].event_payload.amount = 500
    /\ computed.args[1][3].event_payload.amount = 300
    /\ computed.out.paid_installments = 2
    /\ computed.out.total_paid = 300
    /\ computed.out.status = "ACTIVE"

\* C29: for every configuration, with or without jitter, every calculated
\* delay is at most max_delay_seconds, and the delay of attempt n+1 is at
\* least the delay of attempt n as long as that one is below the cap.
C29_DelayCappedAndMonotone ==
    (computed.fn = "calculate_delay")
    => LET delays == computed.out
           cap    == computed.args[1].max_delay_seconds
       IN  /\ \A i \in DOMAIN delays : delays[i] <= cap
           /\ \A i \in DOMAIN delays :
                 (i + 1 \in DOMAIN delays /\ delays[i] < cap)
                 => delays[i + 1] >= delays[i]

\* C30: when a message whose event type has k > 0 registered handlers is
\* handled, the k handlers are each called once with the event, in
\* registration order, whichever of them raise; every raising handler adds
\* one DLQ record holding the event and its error, nothing else is added to
\* the DLQ, no exception leaves the consumer and it keeps running.
C30_AllHandlersRunFailuresToDlq ==
    [][\A m \in Messages :
          \A raises \in [1..Len(HandlersOf(m)) -> BOOLEAN] :
             (/\ last'.op = "_handle_message"
              /\ Len(HandlersOf(m)) > 0
              /\ HandleMessageCall(m, raises))
             => LET hs      == HandlersOf(m)
                    failing == {i \in DOMAIN hs : raises[i]}
                    n       == Cardinality(failing)
                IN  /\ ~last'.raised
                    /\ consumer'.running
                    /\ consumer'.invoked
                         = consumer.invoked
                             \o [i \in DOMAIN hs |-> [event |-> m.event,
                                                      handler |-> hs[i]]]
                    /\ Len(consumer'.dlq) = Len(consumer.dlq) + n
                    /\ SubSeq(consumer'.dlq, n + 1, Len(consumer'.dlq))
                         = consumer.dlq
                    /\ \A j \in 1..n : consumer'.dlq[j].original_event = m.event
                    /\ \A h \in Handlers :
                          Cardinality({j \in 1..n :
                                          consumer'.dlq[j].error = HandlerError(h)})
                            = Cardinality({i \in failing : hs[i] = h})]_vars

\* The first of two handlers raised, the second was still called, and the
\* consumer handled a later message.
C30_SecondHandlerRunsAfterFailure ==
    /\ Len(consumer.invoked) = 2
    /\ consumer.invoked[1].event = consumer.invoked[2].event
    /\ consumer.invoked[1].handler # consumer.invoked[2].handler
    /\ Len(consumer.dlq) = 1
    /\ consumer.dlq[1].error = HandlerError(consumer.invoked[1].handler)
    /\ consumer.dlq[1].original_event = consumer.invoked[1].event
    /\ consumer.running
    /\ consumer.received = 2
    /\ last.op = "_handle_message"

\* C31: retry_with_backoff ends after at most max_retries + 1 invocations:
\* it returns the result of the first invocation that succeeds and invokes
\* nothing after it, and it raises the exception of invocation
\* max_retries + 1 when that many invocations raised.
C31_RetryTerminates ==
    /\ [](computed.fn = "retry_with_backoff"
            => LET run == computed.out
                   max_retries == computed.args[2]
               IN  /\ run.calls <= max_retries + 1
                   /\ run.status = "returned"
                        => /\ run.value = <<"result", run.calls>>
                           /\ Len(run.slept) = run.calls - 1
                   /\ run.status = "raised"
                        => /\ run.calls = max_retries + 1
                           /\ run.value = <<"error", max_retries + 1>>
                           /\ Len(run.slept) = max_retries)
    /\ [][computed.out.status # "running" => computed' = computed]_vars
    /\ <>(computed.out.status # "running")

C31_ThirdInvocationReturns ==
    /\ computed.fn = "retry_with_backoff"
    /\ computed.args[2] = 2
    /\ computed.out.status = "returned"
    /\ computed.out.calls = 3
    /\ computed.out.value = <<"result", 3>>

\* C32: acknowledge(dlq_id) of a queued id takes exactly that entry out of
\* the DLQ, keeps the other entries in their order and returns True; for an
\* id that is not queued it returns False and the DLQ is unchanged; after
\* clear_dlq the count is 0.
C32_AcknowledgeRemovesOneEntry ==
    [][/\ last'.op = "acknowledge"
         => LET ids == {consumer.dlq[i].dlq_id : i \in 1..Len(consumer.dlq)}
            IN  IF last'.id \in ids
                THEN /\ last'.ret = "True"
                     /\ consumer'.dlq
                          = SelectSeq(consumer.dlq,
                                      LAMBDA e : e.dlq_id # last'.id)
                     /\ Len(consumer'.dlq) = Len(consumer.dlq) - 1
                ELSE /\ last'.ret = "False"
                     /\ consumer'.dlq = consumer.dlq
       /\ last'.op = "clear_dlq" => get_dlq_count(consumer'.dlq) = 0]_vars

C32_MiddleEntryAcknowledged ==
    /\ last.op = "acknowledge"
    /\ last.id = 2
    /\ last.ret = "True"
    /\ Len(consumer.dlq) = 2
    /\ consumer.dlq[1].dlq_id = 3
    /\ consumer.dlq[2].dlq_id = 1

\* C33: whichever of the attempt route, process_due_payments and
\* retry_failed_payment made the attempt, a PAYMENT_FAILED entry with
\* retry_scheduled = true for attempt n comes with a retry task for attempt
\* n + 1 of that payment in the queue.
C33_FailedAttemptEnqueuesRetry ==
    [][(/\ last'.op \in {"attempt_payment", "retry_failed_payment",
                         "process_due_payments"}
        /\ Len(ledger') > Len(ledger)
        /\ ledger'[Len(ledger')].event_type = "PAYMENT_FAILED"
        /\ ledger'[Len(ledger')].event_payload.retry_scheduled)
       => LET failed == ledger'[Len(ledger')].event_payload
          IN  \E t \in retry_queue' :
                  /\ t.payment_id = failed.payment_id
                  /\ t.attempt_number = failed.attempt_number + 1]_vars

C35_EveryDuePaymentAttempted ==
    [][last'.op = "process_due_payments"
         => LET due == get_due_payments(World)
            IN  /\ last'.id = Cardinality(due)
                /\ \A p \in due :
                      /\ Cardinality({i \in DOMAIN ledger' :
                            /\ i > Len(ledger)
                            /\ ledger'[i].event_type = "PAYMENT_ATTEMPTED"
                            /\ ledger'[i].event_payload.payment_id = p
                            /\ ledger'[i].event_payload.attempt_number = 1}) = 1
                      /\ payments'[p].status \in {"PAID", "FAILED"}
                      /\ payments'[p].status = "FAILED"
                           => \E t \in retry_queue' : t.payment_id = p]_vars

\* C36: once a lease is COMPLETED or DEFAULTED, a retry task already in the
\* queue for one of its payments makes no charge: it appends no ledger entry
\* for the lease and leaves the payment rows as they are.
C36_TerminalLeaseCancelsRetries ==
    [][\A t \in retry_queue, res \in PaymentResult :
          (/\ last'.op = "retry_failed_payment"
           /\ t.lease_id \in DOMAIN leases
           /\ leases[t.lease_id].status \in {"COMPLETED", "DEFAULTED"}
           /\ RetryFailedPaymentCall(t, res, "none", DeepLedger, DeepLeases))
          => /\ ledger' = ledger
             /\ payments' = payments]_vars

\* C37: create_lease called with a key whose record is live and holds no
\* response (an earlier call stored the key and failed before
\* store_response) adds no lease row, no payment row and no ledger entry.
C37_KeyWithoutResponseIsDuplicate ==
    [][\A c \in Customers, pa \in Principals, t \in Terms, k \in Keys :
          (/\ last'.op = "create_lease"
           /\ k \in DOMAIN idempotency_keys
           /\ idempotency_keys[k].expires_at > now
           /\ idempotency_keys[k].response_payload = NoneResponse
           /\ CreateLeaseCall(c, pa, t, k, "none", FaultLedger, MaxLeases))
          => /\ leases' = leases
             /\ payments' = payments
             /\ ledger' = ledger]_vars

\* C38: for every list of rows in id order, reconstruct_lease_state(events,
\* point_in_time) is the fold without bound of the rows of the list whose
\* created_at is not after point_in_time.
C38_FoldSkipsLaterEvents ==
    (computed.fn = "reconstruct_lease_state" /\ computed.done
        /\ Len(computed.args) = 2)
    => computed.out
         = reconstruct_lease_state(
               SelectSeq(computed.args[1],
                         LAMBDA e : e.created_at <= computed.args[2]),
               NoTime)

C40_OneSuccessPerPayment ==
    \A p \in DOMAIN payments :
        Cardinality({i \in DOMAIN ledger :
                        /\ ledger[i].event_type = "PAYMENT_SUCCEEDED"
                        /\ ledger[i].event_payload.payment_id = p}) <= 1
====
